---------------------------- MODULE Spec2Model ----------------------------
(***************************************************************************)
(* A model of the actor DAG engine: the coordinator (validator, actor      *)
(* table, router), the step actors (sources, stateless transforms, join,   *)
(* pooler, sinks), main's start-up sequence and the HTTP ingress.          *)
(*                                                                         *)
(* Every actix actor is a record with a FIFO inbox; `do_send` appends to   *)
(* the receiver's inbox and one action handles the message at its head.    *)
(* Option<T> is a sequence of length 0 (None) or 1 (Some(v)); Vec<f64> is  *)
(* a sequence of integers; a Trace is the sequence of the names its steps  *)
(* were recorded under (durations are wall-clock readings and are left     *)
(* out).                                                                   *)
(***************************************************************************)
EXTENDS Integers, Sequences, FiniteSets, TLC

VARIABLES
    config,       \* main.rs: the Config handed to Coordinator::new and Initialize
    mainPc,       \* main.rs: position of main() after the config is loaded
    coordQ,       \* the Coordinator's mailbox (Initialize and ProcessMessage)
    actors,       \* Coordinator.actors: step name -> handle (index into inst)
    inst,         \* every step actor ever started, in creation order
    sender_map,   \* the request/response registry: req_id -> oneshot channel id
    reqs,         \* one record per HTTP request being served by the ingress
    stopped,      \* System::current().stop() has been called
    verrors       \* what the last validate_config call returned (its error list)

vars == <<config, mainPc, coordQ, actors, inst, sender_map, reqs, stopped, verrors>>

----------------------------------------------------------------------------
(* Option and sequence helpers *)

None == <<>>

Some(v) == <<v>>

IsSome(o) == o # <<>>

UnwrapOr(o, d) == IF o = <<>> THEN d ELSE o[1]

Range(s) == {s[i] : i \in DOMAIN s}

RECURSIVE Flatten(_)
Flatten(ss) == IF ss = <<>> THEN <<>> ELSE Head(ss) \o Flatten(Tail(ss))

RECURSIVE SumSeq(_)
SumSeq(s) == IF s = <<>> THEN 0 ELSE Head(s) + SumSeq(Tail(s))

RECURSIVE ProductSeq(_)
ProductSeq(s) == IF s = <<>> THEN 1 ELSE Head(s) * ProductSeq(Tail(s))

----------------------------------------------------------------------------
(* config.rs: StepConfig and its params.  params is a serde_json::Value;   *)
(* the model keeps the keys the engine reads, each absent (None) or        *)
(* present (Some).                                                         *)

NoParams ==
    [limit |-> None, batch_mode |-> None, batch_size |-> None,
     window_size |-> None, mode |-> None, remote_endpoint |-> None]

StepConfig(name, node_type, inputs, outputs, params) ==
    [name |-> name, node_type |-> node_type, inputs |-> inputs,
     outputs |-> outputs, params |-> params]

Config(steps, http_mode) == [steps |-> steps, http_mode |-> http_mode]

(* messages.rs: ProcessMessage and Initialize *)
ProcessMessage(id, node_id, data, batch_id, batch_total, trace) ==
    [type |-> "ProcessMessage", id |-> id, node_id |-> node_id, data |-> data,
     batch_id |-> batch_id, batch_total |-> batch_total, trace |-> trace]

Initialize(cfg) == [type |-> "Initialize", config |-> cfg]

----------------------------------------------------------------------------
(* coordinator.rs: Coordinator::new builds adjacency from the inputs of    *)
(* every step: input name -> the names of the steps that declare it, in    *)
(* declaration order, once per declaration of the input.                   *)

AllInputs(steps) == UNION {Range(steps[i].inputs) : i \in DOMAIN steps}

new_adjacency(steps) ==
    [inp \in AllInputs(steps) |->
        Flatten([i \in DOMAIN steps |->
            Flatten([j \in DOMAIN steps[i].inputs |->
                IF steps[i].inputs[j] = inp THEN <<steps[i].name>> ELSE <<>>])])]

(* Coordinator::detect_cycle_util, with `visited` and `rec_stack` threaded *)
(* through the recursion.  The result is the returned bool and the two     *)
(* sets as the call leaves them.                                           *)
RECURSIVE detect_cycle_util(_, _, _, _)
RECURSIVE detect_neighbors(_, _, _, _)

detect_neighbors(neighbors, adjacency, visited, rec_stack) ==
    IF neighbors = <<>>
    THEN [found |-> FALSE, visited |-> visited, rec_stack |-> rec_stack]
    ELSE LET neighbor == Head(neighbors) IN
         IF neighbor \notin visited
         THEN LET r == detect_cycle_util(neighbor, adjacency, visited, rec_stack) IN
              IF r.found
              THEN r
              ELSE IF neighbor \in r.rec_stack
                   THEN [found |-> TRUE, visited |-> r.visited, rec_stack |-> r.rec_stack]
                   ELSE detect_neighbors(Tail(neighbors), adjacency, r.visited, r.rec_stack)
         ELSE IF neighbor \in rec_stack
              THEN [found |-> TRUE, visited |-> visited, rec_stack |-> rec_stack]
              ELSE detect_neighbors(Tail(neighbors), adjacency, visited, rec_stack)

detect_cycle_util(node, adjacency, visited, rec_stack) ==
    IF node \notin visited
    THEN LET v1 == visited \cup {node}
             s1 == rec_stack \cup {node}
             r  == IF node \in DOMAIN adjacency
                   THEN detect_neighbors(adjacency[node], adjacency, v1, s1)
                   ELSE [found |-> FALSE, visited |-> v1, rec_stack |-> s1]
         IN IF r.found
            THEN r
            ELSE [found |-> FALSE, visited |-> r.visited, rec_stack |-> r.rec_stack \ {node}]
    ELSE [found |-> FALSE, visited |-> visited, rec_stack |-> rec_stack \ {node}]

(* Coordinator::has_cycles: the local adjacency is keyed by INPUT name and *)
(* the search starts from, and looks up, STEP names.                       *)
RECURSIVE has_cycles_from(_, _, _, _, _)
has_cycles_from(steps, i, adjacency, visited, rec_stack) ==
    IF i > Len(steps)
    THEN FALSE
    ELSE LET r == detect_cycle_util(steps[i].name, adjacency, visited, rec_stack) IN
         IF r.found THEN TRUE
         ELSE has_cycles_from(steps, i + 1, adjacency, r.visited, r.rec_stack)

has_cycles(cfg) == has_cycles_from(cfg.steps, 1, new_adjacency(cfg.steps), {}, {})

Error(kind, subject, count) == [kind |-> kind, subject |-> subject, count |-> count]

(* Coordinator::validate_config: the list of errors, in the order pushed;  *)
(* the empty list is Ok(()).                                               *)
has_batch_generator(cfg) ==
    \E k \in DOMAIN cfg.steps :
        /\ cfg.steps[k].node_type = "DataGenerator"
        /\ UnwrapOr(cfg.steps[k].params.batch_mode, FALSE)

pooler_errors(cfg) ==
    Flatten([i \in DOMAIN cfg.steps |->
        IF /\ cfg.steps[i].node_type = "BatchPooler"
           /\ UnwrapOr(cfg.steps[i].params.mode, "Window") = "BatchId"
           /\ ~has_batch_generator(cfg)
        THEN <<Error("pooler_without_batch_generator", cfg.steps[i].name, 0)>>
        ELSE <<>>])

sources(cfg) == {i \in DOMAIN cfg.steps : cfg.steps[i].inputs = <<>>}

sinks(cfg) == {i \in DOMAIN cfg.steps : cfg.steps[i].outputs = <<>>}

source_errors(cfg) ==
    IF ~cfg.http_mode /\ Cardinality(sources(cfg)) # 1
    THEN <<Error("source_count", "", Cardinality(sources(cfg)))>>
    ELSE <<>>

no_sink_errors(cfg) == <<>>

sink_errors(cfg) ==
    IF Cardinality(sinks(cfg)) # 1
    THEN <<Error("sink_count", "", Cardinality(sinks(cfg)))>>
    ELSE <<>>

cycle_errors(cfg) ==
    IF has_cycles(cfg) THEN <<Error("cycles", "", 0)>> ELSE <<>>

all_names(cfg) ==
    UNION {Range(cfg.steps[i].outputs) \cup Range(cfg.steps[i].inputs) : i \in DOMAIN cfg.steps}

all_producers(cfg) == UNION {Range(cfg.steps[i].outputs) : i \in DOMAIN cfg.steps}

steps_with_no_producer(cfg) ==
    Flatten([i \in DOMAIN cfg.steps |->
        Flatten([j \in DOMAIN cfg.steps[i].inputs |->
            IF cfg.steps[i].inputs[j] \notin all_producers(cfg)
            THEN <<cfg.steps[i].name>>
            ELSE <<>>])])

producer_errors(cfg) ==
    LET missing == steps_with_no_producer(cfg) IN
    IF cfg.http_mode
    THEN IF Len(missing) > 1
         THEN <<Error("http_mode_no_producer", "", Len(missing))>>
         ELSE <<>>
    ELSE [k \in DOMAIN missing |-> Error("no_producer", missing[k], 0)]

duplicate_errors(cfg) ==
    Flatten([i \in DOMAIN cfg.steps |->
        IF \E k \in 1..(i - 1) : cfg.steps[k].name = cfg.steps[i].name
        THEN <<Error("duplicate_name", cfg.steps[i].name, 0)>>
        ELSE <<>>])

validate_config(cfg) ==
    pooler_errors(cfg) \o source_errors(cfg) \o sink_errors(cfg)
        \o cycle_errors(cfg) \o producer_errors(cfg) \o duplicate_errors(cfg)


----------------------------------------------------------------------------
(* Finite maps (HashMap, DashMap) as functions with a growing domain *)

EmptyMap == [k \in {} |-> None]

MapPut(m, k, v) == [x \in (DOMAIN m) \cup {k} |-> IF x = k THEN v ELSE m[x]]

MapRemove(m, k) == [x \in (DOMAIN m) \ {k} |-> m[x]]

----------------------------------------------------------------------------
(* The step actors.  One record shape serves every kind; a kind only ever  *)
(* reads and writes its own fields.  `handled` and `emitted` are history:  *)
(* the messages the actor's handler has taken and the messages it has sent *)
(* to the coordinator, each in order; `answers` is the history of an       *)
(* MLModel's finished remote calls.                                        *)

Actor(name, kind, output_name, params) ==
    [name |-> name, kind |-> kind, output_name |-> output_name, params |-> params,
     inbox |-> <<>>, running |-> TRUE, handled |-> <<>>, emitted |-> <<>>,
     \* DataGenerator / CsvReader
     limit |-> None, current_count |-> 0, next_id |-> 1, send_batch_info |-> FALSE,
     batch_size |-> None, current_batch_id |-> 1, current_batch_count |-> 0,
     \* StepJoinPoint
     expected_nodes |-> <<>>, mode |-> "AND", pending |-> EmptyMap,
     completed_ids |-> EmptyMap,
     \* BatchPooler
     pooling |-> [kind |-> "BatchId", size |-> 0], window_buffer |-> <<>>,
     batch_buffers |-> EmptyMap,
     \* MLModel
     remote_endpoint |-> None, spawned |-> <<>>, answers |-> <<>>]

(* DataGenerator::new_from_params, CsvReader::new_from_params *)
source_from_params(name, kind, output_name, params) ==
    [Actor(name, kind, output_name, params) EXCEPT
        !.limit = IF kind = "DataGenerator" THEN params.limit ELSE None,
        !.send_batch_info = UnwrapOr(params.batch_mode, FALSE),
        !.batch_size = params.batch_size]

(* StepJoinPoint::parse_join_mode *)
parse_join_mode(params) ==
    IF IsSome(params.mode) /\ params.mode[1] = "OR" THEN "OR" ELSE "AND"

(* StepJoinPoint::new_from_params; create_step_actor injects the step's    *)
(* inputs as expected_nodes.                                               *)
join_from_params(name, output_name, params, inputs) ==
    [Actor(name, "StepJoinPoint", output_name, params) EXCEPT
        !.expected_nodes = inputs,
        !.mode = parse_join_mode(params)]

(* BatchPooler::new_from_params: a window_size selects Window mode, its    *)
(* absence BatchId mode; the params' "mode" key is not read.               *)
pooling_mode(params) ==
    IF IsSome(params.window_size)
    THEN [kind |-> "Window", size |-> params.window_size[1]]
    ELSE [kind |-> "BatchId", size |-> 0]

pooler_from_params(name, output_name, params) ==
    [Actor(name, "BatchPooler", output_name, params) EXCEPT
        !.pooling = pooling_mode(params)]

(* MLModel::new_from_params *)
mlmodel_from_params(name, output_name, params) ==
    [Actor(name, "MLModel", output_name, params) EXCEPT
        !.remote_endpoint = params.remote_endpoint]

OutputKinds ==
    {"FeatureProcessor", "PyFeatureProcessor", "MLModel", "DataGenerator",
     "StepJoinPoint", "BatchPooler"}

NoActor == [tag |-> "None"]

SomeActor(a) == [tag |-> "Some", actor |-> a]

(* Coordinator::create_step_actor: None, or Some(the started actor).       *)
(* `registry` is self.sender_map.is_some().  A CsvReader without outputs   *)
(* indexes outputs[0] and panics: that case is tagged "Panic".             *)
create_step_actor(step, registry) ==
    IF step.node_type \in OutputKinds
    THEN IF step.outputs = <<>>
         THEN NoActor
         ELSE CASE step.node_type = "DataGenerator" ->
                     SomeActor(source_from_params(step.name, step.node_type,
                                                  step.outputs[1], step.params))
                [] step.node_type = "StepJoinPoint" ->
                     SomeActor(join_from_params(step.name, step.outputs[1],
                                                step.params, step.inputs))
                [] step.node_type = "BatchPooler" ->
                     SomeActor(pooler_from_params(step.name, step.outputs[1],
                                                  step.params))
                [] step.node_type = "MLModel" ->
                     SomeActor(mlmodel_from_params(step.name, step.outputs[1],
                                                   step.params))
                [] OTHER ->
                     SomeActor(Actor(step.name, step.node_type, step.outputs[1],
                                     step.params))
    ELSE CASE step.node_type = "CsvReader" ->
                 IF step.outputs = <<>>
                 THEN [tag |-> "Panic"]
                 ELSE SomeActor(source_from_params(step.name, "CsvReader",
                                                   step.outputs[1], step.params))
           [] step.node_type = "Printer" ->
                 SomeActor(Actor(step.name, "Printer", "", step.params))
           [] step.node_type = "HttpOutput" ->
                 IF registry
                 THEN SomeActor(Actor(step.name, "HttpOutput",
                                      IF step.inputs = <<>> THEN "" ELSE step.inputs[1],
                                      step.params))
                 ELSE NoActor
           [] OTHER -> NoActor

(* Coordinator::spawn_actors: for each step in declaration order, create   *)
(* the actor and insert its handle under the step's name (HashMap::insert  *)
(* replaces the handle already stored under that name).                    *)
RECURSIVE spawn_actors(_, _, _, _, _)
spawn_actors(steps, i, registry, acts, insts) ==
    IF i > Len(steps)
    THEN [actors |-> acts, inst |-> insts, panicked |-> FALSE]
    ELSE LET made == create_step_actor(steps[i], registry) IN
         CASE made.tag = "None" ->
                 spawn_actors(steps, i + 1, registry, acts, insts)
           [] made.tag = "Panic" ->
                 [actors |-> acts, inst |-> insts, panicked |-> TRUE]
           [] OTHER ->
                 spawn_actors(steps, i + 1, registry,
                              MapPut(acts, steps[i].name, Len(insts) + 1),
                              Append(insts, made.actor))

(* Whether main created the registry: Some(..) exactly in http mode        *)
(* (main.rs 197-201).                                                      *)
has_sender_map == config.http_mode

HandleInitializeUnchecked ==
    /\ ~stopped
    /\ coordQ # <<>>
    /\ Head(coordQ).type = "Initialize"
    /\ verrors' = validate_config(Head(coordQ).config)
    /\ LET r == spawn_actors(Head(coordQ).config.steps, 1, has_sender_map,
                             actors, inst) IN
       /\ actors' = r.actors
       /\ inst' = r.inst
       /\ stopped' = (r.panicked \/ verrors' # <<>>)
    /\ coordQ' = Tail(coordQ)
    /\ UNCHANGED <<config, mainPc, sender_map, reqs>>

(* Handler<Initialize> for Coordinator = Coordinator::handle_initialize.   *)
HandleInitialize ==
    /\ ~stopped
    /\ coordQ # <<>>
    /\ Head(coordQ).type = "Initialize"
    /\ LET errors == validate_config(Head(coordQ).config) IN
       /\ verrors' = errors
       /\ IF errors = <<>>
          THEN LET r == spawn_actors(Head(coordQ).config.steps, 1, has_sender_map,
                                     actors, inst) IN
               /\ actors' = r.actors
               /\ inst' = r.inst
               /\ stopped' = r.panicked
          ELSE /\ stopped' = TRUE
               /\ UNCHANGED <<actors, inst>>
    /\ coordQ' = Tail(coordQ)
    /\ UNCHANGED <<config, mainPc, sender_map, reqs>>


----------------------------------------------------------------------------
(* Handlers.  A handler is an operator from (the actor, the message) to    *)
(* the actor afterwards and the messages it sent to the coordinator.       *)

Result(self, out) == [self |-> self, out |-> out]

AddTrace(msg, step_name) == Append(msg.trace, step_name)

(* FeatureProcessor::process_data.  The quotient x / max of the            *)
(* "normalized_data" branch is kept as the pair <<x, max>>.                *)
Max(S) == CHOOSE m \in S : \A x \in S : x <= m

process_data(output_name, data) ==
    CASE output_name = "normalized_data" ->
            IF data = <<>> \/ Max(Range(data)) = 0
            THEN data
            ELSE [k \in DOMAIN data |-> <<data[k], Max(Range(data))>>]
      [] output_name = "encoded_data" ->
            [k \in DOMAIN data |-> data[k] * data[k]]
      [] OTHER -> data

(* Handler<ProcessMessage> for FeatureProcessor *)
feature_processor_handle(self, msg) ==
    Result(self,
           <<ProcessMessage(msg.id, self.output_name,
                            process_data(self.output_name, msg.data),
                            msg.batch_id, msg.batch_total,
                            AddTrace(msg, self.name))>>)

(* MLModel::handle_local_prediction without an onnx_model_path *)
handle_local_prediction(output_name, data) ==
    CASE output_name = "lr_output" -> <<SumSeq(data)>>
      [] output_name = "am_output" -> <<ProductSeq(data)>>
      [] OTHER -> <<SumSeq(data)>>

mlmodel_handle_empty_too(self, msg) ==
    IF IsSome(self.remote_endpoint)
    THEN Result([self EXCEPT !.spawned = Append(@, msg)], <<>>)
    ELSE Result(self,
                <<ProcessMessage(msg.id, self.output_name,
                                 handle_local_prediction(self.output_name, msg.data),
                                 msg.batch_id, msg.batch_total,
                                 AddTrace(msg, self.output_name))>>)

(* Handler<ProcessMessage> for MLModel: empty data is dropped; with a      *)
(* remote endpoint the call is spawned and answered later; otherwise the   *)
(* local prediction is emitted at once.  The trace step is recorded under  *)
(* the output name.                                                        *)
mlmodel_handle(self, msg) ==
    IF msg.data = <<>>
    THEN Result(self, <<>>)
    ELSE IF IsSome(self.remote_endpoint)
    THEN Result([self EXCEPT !.spawned = Append(@, msg)], <<>>)
    ELSE Result(self,
                <<ProcessMessage(msg.id, self.output_name,
                                 handle_local_prediction(self.output_name, msg.data),
                                 msg.batch_id, msg.batch_total,
                                 AddTrace(msg, self.output_name))>>)

(* StepJoinPoint: the key of a message *)
join_key(msg) == UnwrapOr(msg.batch_id, msg.id)

(* StepJoinPoint AND: expected_nodes.iter().all(|node| entry.contains_key(node)) *)
all_expected_present(expected_nodes, entry) ==
    \A k \in DOMAIN expected_nodes : expected_nodes[k] \in DOMAIN entry

combined_data_reversed(expected_nodes, entry) ==
    Flatten([k \in DOMAIN expected_nodes |->
                entry[expected_nodes[Len(expected_nodes) + 1 - k]]])

(* StepJoinPoint AND: the data of the entry in expected_nodes order *)
combined_data(expected_nodes, entry) ==
    Flatten([k \in DOMAIN expected_nodes |-> entry[expected_nodes[k]]])

pending_kept(pending, key) == pending

(* StepJoinPoint AND: self.pending.remove(&key) after an emission *)
pending_removed(pending, key) == MapRemove(pending, key)

(* Handler<ProcessMessage> for StepJoinPoint, JoinMode::AND *)
join_and_handle(self, msg) ==
    LET key   == join_key(msg)
        old   == IF key \in DOMAIN self.pending THEN self.pending[key] ELSE EmptyMap
        entry == MapPut(old, msg.node_id, msg.data)
    IN IF all_expected_present(self.expected_nodes, entry)
       THEN Result([self EXCEPT !.pending = pending_removed(self.pending, key)],
                   <<ProcessMessage(key, self.output_name,
                                    combined_data(self.expected_nodes, entry),
                                    msg.batch_id, msg.batch_total,
                                    AddTrace(msg, self.name))>>)
       ELSE Result([self EXCEPT !.pending = MapPut(self.pending, key, entry)], <<>>)

or_remaining_off_by_one(expected_nodes) == Len(expected_nodes)

(* StepJoinPoint OR: the counter stored after the first arrival *)
or_remaining(expected_nodes) ==
    IF Len(expected_nodes) > 1 THEN Len(expected_nodes) - 1 ELSE 0

(* Handler<ProcessMessage> for StepJoinPoint, JoinMode::OR *)
join_or_handle(self, msg) ==
    LET key == join_key(msg) IN
    IF key \in DOMAIN self.completed_ids
    THEN LET count == self.completed_ids[key] IN
         IF count > 0
         THEN IF count - 1 = 0
              THEN Result([self EXCEPT !.completed_ids = MapRemove(@, key)], <<>>)
              ELSE Result([self EXCEPT !.completed_ids = MapPut(@, key, count - 1)], <<>>)
         ELSE Result(self, <<>>)
    ELSE LET remaining == or_remaining(self.expected_nodes)
             out == <<ProcessMessage(key, self.output_name, msg.data,
                                     msg.batch_id, msg.batch_total,
                                     AddTrace(msg, self.name))>>
         IN IF remaining = 0
            THEN Result(self, out)
            ELSE Result([self EXCEPT !.completed_ids = MapPut(@, key, remaining)], out)

(* Handler<ProcessMessage> for StepJoinPoint *)
join_handle(self, msg) ==
    IF self.mode = "AND" THEN join_and_handle(self, msg) ELSE join_or_handle(self, msg)

(* BatchPooler: batch.iter().flat_map(|m| m.data.clone()).collect() *)
batched_data(batch) == Flatten([k \in DOMAIN batch |-> batch[k].data])

window_overfull(buffer, size) == Len(buffer) > size

(* BatchPooler Window: self.window_buffer.len() >= *size *)
window_full(buffer, size) == Len(buffer) >= size

(* Handler<ProcessMessage> for BatchPooler, PoolingMode::Window *)
pooler_window_handle(self, msg) ==
    LET buffer == Append(self.window_buffer, msg) IN
    IF window_full(buffer, self.pooling.size)
    THEN Result([self EXCEPT !.window_buffer = <<>>],
                <<ProcessMessage(msg.id, self.output_name, batched_data(buffer),
                                 msg.batch_id, msg.batch_total,
                                 AddTrace(msg, self.name))>>)
    ELSE Result([self EXCEPT !.window_buffer = buffer], <<>>)

batch_overcomplete(buffer, batch_total) == Len(buffer) > batch_total

(* BatchPooler BatchId: buffer.len() >= batch_total as usize *)
batch_complete(buffer, batch_total) == Len(buffer) >= batch_total

pooler_batch_handle_untagged(self, msg) ==
    LET batch_id == UnwrapOr(msg.batch_id, msg.id)
        old == IF batch_id \in DOMAIN self.batch_buffers
               THEN self.batch_buffers[batch_id] ELSE <<>>
        buffer == Append(old, msg)
    IN IF batch_complete(buffer, UnwrapOr(msg.batch_total, 1))
       THEN Result([self EXCEPT !.batch_buffers = MapRemove(@, batch_id)],
                   <<ProcessMessage(batch_id, self.output_name,
                                    batched_data(buffer),
                                    Some(batch_id), Some(Len(buffer)),
                                    AddTrace(msg, self.name))>>)
       ELSE Result([self EXCEPT !.batch_buffers = MapPut(@, batch_id, buffer)],
                   <<>>)

(* Handler<ProcessMessage> for BatchPooler, PoolingMode::BatchId *)
pooler_batch_handle(self, msg) ==
    IF IsSome(msg.batch_id) /\ IsSome(msg.batch_total)
    THEN LET batch_id == msg.batch_id[1]
             old == IF batch_id \in DOMAIN self.batch_buffers
                    THEN self.batch_buffers[batch_id] ELSE <<>>
             buffer == Append(old, msg)
         IN IF batch_complete(buffer, msg.batch_total[1])
            THEN Result([self EXCEPT !.batch_buffers = MapRemove(@, batch_id)],
                        <<ProcessMessage(batch_id, self.output_name,
                                         batched_data(buffer),
                                         Some(batch_id), Some(Len(buffer)),
                                         AddTrace(msg, self.name))>>)
            ELSE Result([self EXCEPT !.batch_buffers = MapPut(@, batch_id, buffer)],
                        <<>>)
    ELSE Result(self, <<>>)

(* Handler<ProcessMessage> for BatchPooler *)
pooler_handle(self, msg) ==
    IF self.pooling.kind = "Window"
    THEN pooler_window_handle(self, msg)
    ELSE pooler_batch_handle(self, msg)

(* An actor takes the message at the head of its inbox, runs its handler   *)
(* to the end and sends what the handler emitted to the coordinator.       *)
Handled(i, r) ==
    /\ inst' = [inst EXCEPT ![i] =
                  [r.self EXCEPT !.inbox = Tail(@),
                                 !.handled = Append(@, Head(inst[i].inbox)),
                                 !.emitted = @ \o r.out]]
    /\ coordQ' = coordQ \o r.out
    /\ UNCHANGED <<config, mainPc, actors, sender_map, reqs, stopped, verrors>>

CanHandle(i, kinds) ==
    /\ ~stopped
    /\ i \in DOMAIN inst
    /\ inst[i].kind \in kinds
    /\ inst[i].inbox # <<>>

FeatureProcessorHandle ==
    \E i \in DOMAIN inst :
        /\ CanHandle(i, {"FeatureProcessor"})
        /\ Handled(i, feature_processor_handle(inst[i], Head(inst[i].inbox)))

MLModelHandle ==
    \E i \in DOMAIN inst :
        /\ CanHandle(i, {"MLModel"})
        /\ Handled(i, mlmodel_handle(inst[i], Head(inst[i].inbox)))

JoinHandle ==
    \E i \in DOMAIN inst :
        /\ CanHandle(i, {"StepJoinPoint"})
        /\ Handled(i, join_handle(inst[i], Head(inst[i].inbox)))

PoolerHandle ==
    \E i \in DOMAIN inst :
        /\ CanHandle(i, {"BatchPooler"})
        /\ Handled(i, pooler_handle(inst[i], Head(inst[i].inbox)))

(* Handler<ProcessMessage> for Printer: prints, emits nothing. *)
PrinterHandle ==
    \E i \in DOMAIN inst :
        /\ CanHandle(i, {"Printer"})
        /\ Handled(i, Result(inst[i], <<>>))

----------------------------------------------------------------------------
(* The validator on its own: a coordinator built for a declared graph      *)
(* receives one Initialize.  The graphs are all the lists of at most       *)
(* MaxValSteps steps over three step names, two stream names and every     *)
(* choice of inputs and outputs; the step name "x" is also a stream name.  *)

MaxValSteps == 3

ValNames == {"s", "t", "x"}

ValInputs == {<<>>, <<"x">>, <<"y">>, <<"x", "y">>}

ValOutputs == {<<>>, <<"x">>, <<"y">>}

ValKind(inputs, outputs) ==
    IF outputs = <<>> THEN "Printer"
    ELSE IF inputs = <<>> THEN "DataGenerator" ELSE "FeatureProcessor"

ValSteps ==
    {StepConfig(n, ValKind(i, o), i, o, NoParams) :
        n \in ValNames, i \in ValInputs, o \in ValOutputs}

ValConfigs ==
    UNION {[1..n -> ValSteps] : n \in 1..MaxValSteps}

InitValidate ==
    /\ \E steps \in ValConfigs, http \in BOOLEAN : config = Config(steps, http)
    /\ mainPc = "serving"
    /\ coordQ = <<Initialize(config)>>
    /\ actors = EmptyMap
    /\ inst = <<>>
    /\ sender_map = EmptyMap
    /\ reqs = <<>>
    /\ stopped = FALSE
    /\ verrors = <<>>

SpecValidate == InitValidate /\ [][HandleInitialize]_vars

(* The declared graph: an edge from step i to step j when j consumes one   *)
(* of i's outputs.  Reach is the set of steps reachable from i by at       *)
(* least one edge.                                                         *)
Edge(steps, i, j) == Range(steps[i].outputs) \cap Range(steps[j].inputs) # {}

RECURSIVE ReachFrom(_, _, _)
ReachFrom(steps, frontier, seen) ==
    LET next == {j \in DOMAIN steps : \E i \in frontier : Edge(steps, i, j)} \ seen IN
    IF next = {} THEN seen ELSE ReachFrom(steps, next, seen \cup next)

GraphHasCycle(steps) ==
    \E i \in DOMAIN steps : i \in ReachFrom(steps, {i}, {})

Validated == coordQ = <<>> /\ mainPc = "serving"

\* C2: once Initialize has been handled for a graph with a cycle (a self-loop
\* included), validate_config has returned errors and the system was stopped.
C2_CyclicConfigRejected ==
    (Validated /\ GraphHasCycle(config.steps)) => (verrors # <<>> /\ stopped)


----------------------------------------------------------------------------
(* A join on its own.  The coordinator created it from its declaration     *)
(* and forwards it messages (StepActor::send_process_message): any         *)
(* sequence of at most MaxJoinDeliveries messages from JoinMsgs, in any    *)
(* interleaving with the join's handler.  Nobody drains the coordinator's  *)
(* mailbox here, so coordQ is the list of the join's emissions.            *)

MaxJoinDeliveries == 4

JoinInputs == {<<"a", "b">>, <<"b", "a">>}

JoinModes == {None, Some("OR")}

\* ids 1 and 2 without batch fields, and id 3 carrying batch_id 1: its key is 1.
JoinMsgs ==
    {ProcessMessage(id, "a", <<d>>, None, None, <<>>) : id \in {1, 2}, d \in {7, 8}}
    \cup {ProcessMessage(id, "b", <<6>>, None, None, <<>>) : id \in {1, 2}}
    \cup {ProcessMessage(3, n, <<9>>, Some(1), Some(2), <<>>) : n \in {"a", "b"}}

JoinDecl(inputs, mode) ==
    StepConfig("join", "StepJoinPoint", inputs, <<"joined">>,
               [NoParams EXCEPT !.mode = mode])

InitJoin ==
    /\ \E inputs \in JoinInputs, mode \in JoinModes :
          /\ config = Config(<<JoinDecl(inputs, mode)>>, FALSE)
          /\ inst = <<create_step_actor(JoinDecl(inputs, mode), FALSE).actor>>
    /\ actors = MapPut(EmptyMap, "join", 1)
    /\ mainPc = "sleeping"
    /\ coordQ = <<>>
    /\ sender_map = EmptyMap
    /\ reqs = <<>>
    /\ stopped = FALSE
    /\ verrors = <<>>

send_to_front(insts, i, msg) ==
    [insts EXCEPT ![i].inbox = <<msg>> \o @]

(* StepActor::send_process_message: actor.do_send(msg) *)
send_process_message(insts, i, msg) ==
    [insts EXCEPT ![i].inbox = Append(@, msg)]

Delivered(i) == Len(inst[i].handled) + Len(inst[i].inbox)

DeliverToJoin ==
    /\ ~stopped
    /\ Delivered(1) < MaxJoinDeliveries
    /\ \E msg \in JoinMsgs : inst' = send_process_message(inst, 1, msg)
    /\ UNCHANGED <<config, mainPc, coordQ, actors, sender_map, reqs, stopped, verrors>>

NextJoin == DeliverToJoin \/ JoinHandle

SpecJoin == InitJoin /\ [][NextJoin]_vars

JoinKeys == {1, 2}

\* the messages of a log whose key is K, in order
RECURSIVE ForKey(_, _)
ForKey(log, K) ==
    IF log = <<>> THEN <<>>
    ELSE IF join_key(Head(log)) = K
         THEN <<Head(log)>> \o ForKey(Tail(log), K)
         ELSE ForKey(Tail(log), K)

\* the messages of a log whose id is K, in order
RECURSIVE WithId(_, _)
WithId(log, K) ==
    IF log = <<>> THEN <<>>
    ELSE IF Head(log).id = K
         THEN <<Head(log)>> \o WithId(Tail(log), K)
         ELSE WithId(Tail(log), K)

NamesOf(log) == {log[i].node_id : i \in DOMAIN log}

\* how many times the deliveries of `log` (all for one key) complete the set
\* of expected names, counting afresh after each completion
RECURSIVE Completions(_, _, _)
Completions(log, expected, have) ==
    IF log = <<>> THEN 0
    ELSE LET now == have \cup {Head(log).node_id} IN
         IF expected \subseteq now
         THEN 1 + Completions(Tail(log), expected, {})
         ELSE Completions(Tail(log), expected, now)

IsAndJoin == inst[1].kind = "StepJoinPoint" /\ inst[1].mode = "AND"

IsOrJoin == inst[1].kind = "StepJoinPoint" /\ inst[1].mode = "OR"

\* C3 as stated: an AND join has emitted exactly once for K if every expected
\* name has been delivered for K, and not at all otherwise.
C3_AndEmitsExactlyOnceIffAll ==
    IsAndJoin =>
        \A K \in JoinKeys :
            LET got == NamesOf(ForKey(inst[1].handled, K))
                n   == Len(WithId(inst[1].emitted, K))
            IN n = (IF Range(inst[1].expected_nodes) \subseteq got THEN 1 ELSE 0)

\* C3 amended: an AND join never emits for K before every expected name has
\* been delivered for K, and it has emitted once for each time the deliveries
\* for K completed the expected names since its previous emission for K; so
\* exactly once, iff all have arrived, when no name is delivered twice for K.
C3_AndEmitsOncePerCompletion ==
    IsAndJoin =>
        \A K \in JoinKeys :
            LET log == ForKey(inst[1].handled, K)
                n   == Len(WithId(inst[1].emitted, K))
                exp == Range(inst[1].expected_nodes)
            IN /\ n = Completions(log, exp, {})
               /\ n >= 1 => exp \subseteq NamesOf(log)
               /\ (\A i, k \in DOMAIN log : log[i].node_id = log[k].node_id => i = k)
                     => n = (IF exp \subseteq NamesOf(log) THEN 1 ELSE 0)

C3_Witness ==
    /\ IsAndJoin
    /\ Len(inst[1].expected_nodes) = 2
    /\ Len(WithId(inst[1].emitted, 1)) = 2
    /\ Len(ForKey(inst[1].handled, 2)) = 0


\* C5 as stated: an OR join has emitted exactly once for every key K it has
\* received a message for (the first arrival), however many arrived.
C5_OrEmitsExactlyOnce ==
    IsOrJoin =>
        \A K \in JoinKeys :
            LET log == ForKey(inst[1].handled, K)
                out == WithId(inst[1].emitted, K)
            IN Len(log) >= 1 => (Len(out) = 1 /\ out[1].data = log[1].data)

\* C5 amended: with E = |expected_nodes| (E >= 1), arrival number j for K is
\* emitted iff (j - 1) mod E = 0, verbatim: the first arrival is emitted, the
\* next E - 1 are dropped, then K is forgotten and the count starts again.  So
\* exactly once (the first arrival) while at most E messages have arrived.
C5_OrEmitsEveryEth ==
    IsOrJoin =>
        \A K \in JoinKeys :
            LET log == ForKey(inst[1].handled, K)
                out == WithId(inst[1].emitted, K)
                E   == Len(inst[1].expected_nodes)
            IN /\ Len(out) = (Len(log) + E - 1) \div E
               /\ \A k \in DOMAIN out :
                     /\ out[k].data = log[(k - 1) * E + 1].data
                     /\ out[k].batch_id = log[(k - 1) * E + 1].batch_id
                     /\ out[k].batch_total = log[(k - 1) * E + 1].batch_total
               /\ (Len(log) >= 1 /\ Len(log) <= E) => Len(out) = 1

C5_Witness ==
    /\ IsOrJoin
    /\ Len(ForKey(inst[1].handled, 1)) = 3
    /\ Len(WithId(inst[1].emitted, 1)) = 2
    /\ Len(ForKey(inst[1].handled, 2)) = 1
    /\ Len(WithId(inst[1].emitted, 2)) = 1


----------------------------------------------------------------------------
(* A pooler on its own, created from its declaration with a window_size of *)
(* 1..MaxWindow (Window mode) or none (BatchId mode), and fed any sequence *)
(* of at most MaxPoolDeliveries messages.                                  *)

MaxPoolDeliveries == 4

MaxWindow == 2

\* Window mode: three untagged messages, one of another length, and a tagged one.
WindowMsgs ==
    {ProcessMessage(1, "in", <<1>>, None, None, <<>>),
     ProcessMessage(2, "in", <<2>>, None, None, <<>>),
     ProcessMessage(3, "in", <<3, 3>>, None, None, <<>>),
     ProcessMessage(4, "in", <<4>>, Some(1), Some(2), <<>>)}

\* BatchId mode: batch 1 of two, batch 2 announced as of two and as of three, an
\* untagged message, one with a batch_id but no batch_total and one with a
\* batch_total but no batch_id.
BatchMsgs ==
    {ProcessMessage(i, "in", <<10 * bt[1] + i>>, Some(bt[1]), Some(bt[2]), <<>>) :
        i \in {1, 2}, bt \in {<<1, 2>>, <<2, 2>>, <<2, 3>>}}
    \cup {ProcessMessage(5, "in", <<5>>, None, None, <<>>),
          ProcessMessage(6, "in", <<6>>, Some(1), None, <<>>),
          ProcessMessage(7, "in", <<7>>, None, Some(1), <<>>)}

PoolerDecl(window_size) ==
    StepConfig("pool", "BatchPooler", <<"in">>, <<"pooled">>,
               [NoParams EXCEPT !.window_size = window_size])

InitPooler ==
    /\ \E w \in {None} \cup {Some(k) : k \in 1..MaxWindow} :
          /\ config = Config(<<PoolerDecl(w)>>, FALSE)
          /\ inst = <<create_step_actor(PoolerDecl(w), FALSE).actor>>
    /\ actors = MapPut(EmptyMap, "pool", 1)
    /\ mainPc = "sleeping"
    /\ coordQ = <<>>
    /\ sender_map = EmptyMap
    /\ reqs = <<>>
    /\ stopped = FALSE
    /\ verrors = <<>>

DeliverToPooler ==
    /\ ~stopped
    /\ Delivered(1) < MaxPoolDeliveries
    /\ \E msg \in (IF inst[1].pooling.kind = "Window" THEN WindowMsgs ELSE BatchMsgs) :
          inst' = send_process_message(inst, 1, msg)
    /\ UNCHANGED <<config, mainPc, coordQ, actors, sender_map, reqs, stopped, verrors>>

NextPooler == DeliverToPooler \/ PoolerHandle

SpecPooler == InitPooler /\ [][NextPooler]_vars

IsWindowPooler == inst[1].kind = "BatchPooler" /\ inst[1].pooling.kind = "Window"

IsBatchIdPooler == inst[1].kind = "BatchPooler" /\ inst[1].pooling.kind = "BatchId"

DataOf(log) == Flatten([k \in DOMAIN log |-> log[k].data])

\* C6: a Window pooler of size W >= 1 that has handled N*W messages, each with
\* data of length L, has emitted exactly N messages, each with data of length
\* W*L, whose data in emission order are the inputs' data in arrival order.
C6_WindowPoolsEveryW ==
    IsWindowPooler =>
        LET W == inst[1].pooling.size
            h == inst[1].handled
            e == inst[1].emitted
        IN \A N \in 0..MaxPoolDeliveries + 1, L \in 0..2 :
              (/\ W >= 1
               /\ Len(h) = N * W
               /\ \A k \in DOMAIN h : Len(h[k].data) = L)
              => /\ Len(e) = N
                 /\ \A k \in DOMAIN e : Len(e[k].data) = W * L
                 /\ DataOf(e) = DataOf(h)

C6_Witness ==
    /\ IsWindowPooler
    /\ inst[1].pooling.size = 2
    /\ Len(inst[1].handled) = 4
    /\ \A k \in DOMAIN inst[1].handled : Len(inst[1].handled[k].data) = 1
    /\ Len(inst[1].emitted) = 2

\* the messages of a log that carry batch_id b and a batch_total
RECURSIVE OfBatch(_, _)
OfBatch(log, b) ==
    IF log = <<>> THEN <<>>
    ELSE IF Head(log).batch_id = Some(b) /\ IsSome(Head(log).batch_total)
         THEN <<Head(log)>> \o OfBatch(Tail(log), b)
         ELSE OfBatch(Tail(log), b)

BatchIds == {1, 2}

\* C7 as stated: in BatchId mode the emissions for a batch_id hold the data of
\* the messages of that batch_id only, in insertion order, and all the messages
\* received with one batch_id are emitted in one emission.
C7_BatchEmittedTogether ==
    IsBatchIdPooler =>
        \A b \in BatchIds :
            LET out == WithId(inst[1].emitted, b) IN
            /\ Len(out) <= 1
            /\ DataOf(out) \o DataOf(IF b \in DOMAIN inst[1].batch_buffers
                                     THEN inst[1].batch_buffers[b] ELSE <<>>)
                  = DataOf(OfBatch(inst[1].handled, b))

\* C7 amended: the emissions for batch_id b, in order, followed by what is
\* still buffered for b, are exactly the messages received with batch_id b (and
\* a batch_total), in insertion order; each emission holds the messages of b
\* received since the previous emission for b, as many as its batch_total
\* field says, and a buffer is flushed as soon as it reaches the batch_total of
\* the message just added.  So the messages of one batch_id are emitted in one
\* emission when exactly batch_total of them are received.
C7_BatchEmittedInGroups ==
    IsBatchIdPooler =>
        \A b \in BatchIds :
            LET out == WithId(inst[1].emitted, b)
                got == OfBatch(inst[1].handled, b)
                buf == IF b \in DOMAIN inst[1].batch_buffers
                       THEN inst[1].batch_buffers[b] ELSE <<>>
            IN /\ DataOf(out) \o DataOf(buf) = DataOf(got)
               /\ \A k \in DOMAIN out :
                     /\ out[k].batch_id = Some(b)
                     /\ out[k].batch_total = Some(Len(out[k].data))
               /\ buf # <<>> => Len(buf) < buf[Len(buf)].batch_total[1]
               /\ (got # <<>> /\ \A k \in DOMAIN got : got[k].batch_total = Some(Len(got)))
                     => (Len(out) = 1 /\ buf = <<>>)

C7_Witness ==
    /\ IsBatchIdPooler
    /\ Len(WithId(inst[1].emitted, 1)) = 2
    /\ Len(OfBatch(inst[1].handled, 1)) = 4


----------------------------------------------------------------------------
(* The running system in streaming mode: main, the coordinator's mailbox,  *)
(* the source's interval and the steps' handlers.                          *)

(* Handler<ProcessMessage> for Coordinator: for each name listed under the *)
(* message's node_id, in order, send a clone to the handle registered      *)
(* under that name; a name without a handle is logged and skipped.         *)
RECURSIVE route_each(_, _, _, _)
route_each(downs, registry, insts, msg) ==
    IF downs = <<>> THEN insts
    ELSE route_each(Tail(downs), registry,
                    IF Head(downs) \in DOMAIN registry
                    THEN send_process_message(insts, registry[Head(downs)], msg)
                    ELSE insts,
                    msg)

route_first_only(adjacency, registry, insts, msg) ==
    IF msg.node_id \in DOMAIN adjacency
    THEN route_each(<<Head(adjacency[msg.node_id])>>, registry, insts, msg)
    ELSE insts

route(adjacency, registry, insts, msg) ==
    IF msg.node_id \in DOMAIN adjacency
    THEN route_each(adjacency[msg.node_id], registry, insts, msg)
    ELSE insts

(* The coordinator's adjacency is built once, by Coordinator::new, from    *)
(* the configuration main loaded.                                          *)
HandleProcessMessage ==
    /\ ~stopped
    /\ coordQ # <<>>
    /\ Head(coordQ).type = "ProcessMessage"
    /\ inst' = route(new_adjacency(config.steps), actors, inst, Head(coordQ))
    /\ coordQ' = Tail(coordQ)
    /\ UNCHANGED <<config, mainPc, actors, sender_map, reqs, stopped, verrors>>

(* generate_random_features(size): `size` draws from [0, 10); the draws    *)
(* are represented by the vectors k |-> (k * seed) % 10.                   *)
GenSeeds == {1, 3}

generate_random_features(size) ==
    {[k \in 1..size |-> (k * seed) % 10] : seed \in GenSeeds}

FeatureVectorSize == 5

batch_info_late(self) ==
    IF self.send_batch_info /\ IsSome(self.batch_size)
    THEN LET size    == self.batch_size[1]
             rolled  == self.current_batch_count > size
             cur_id  == IF rolled THEN self.current_batch_id + 1
                        ELSE self.current_batch_id
             cur_cnt == IF rolled THEN 0 ELSE self.current_batch_count
         IN [batch_id |-> Some(cur_id), batch_total |-> Some(size),
             current_batch_id |-> cur_id, current_batch_count |-> cur_cnt + 1]
    ELSE [batch_id |-> None, batch_total |-> None,
          current_batch_id |-> self.current_batch_id,
          current_batch_count |-> self.current_batch_count]

(* The batch fields of a source's next message and the counters afterwards *)
(* (the same code in DataGenerator and CsvReader).                         *)
batch_info(self) ==
    IF self.send_batch_info /\ IsSome(self.batch_size)
    THEN LET size    == self.batch_size[1]
             rolled  == self.current_batch_count >= size
             cur_id  == IF rolled THEN self.current_batch_id + 1
                        ELSE self.current_batch_id
             cur_cnt == IF rolled THEN 0 ELSE self.current_batch_count
         IN [batch_id |-> Some(cur_id), batch_total |-> Some(size),
             current_batch_id |-> cur_id, current_batch_count |-> cur_cnt + 1]
    ELSE [batch_id |-> None, batch_total |-> None,
          current_batch_id |-> self.current_batch_id,
          current_batch_count |-> self.current_batch_count]

MaxTicks == 2

(* One firing of the interval DataGenerator::generate_data installs: stop  *)
(* at the limit, otherwise send the next message to the coordinator.  An   *)
(* instance keeps its interval whether or not its handle is still          *)
(* registered.  `max` caps the firings of an instance without a limit.     *)
generate_data(max) ==
    \E i \in DOMAIN inst :
        /\ ~stopped
        /\ inst[i].kind = "DataGenerator"
        /\ inst[i].running
        /\ IF IsSome(inst[i].limit) /\ inst[i].current_count >= inst[i].limit[1]
           THEN /\ inst' = [inst EXCEPT ![i].running = FALSE]
                /\ UNCHANGED coordQ
           ELSE /\ inst[i].current_count < max
                /\ \E feature_vector \in generate_random_features(FeatureVectorSize) :
                      LET self == inst[i]
                          b    == batch_info(self)
                          msg  == ProcessMessage(self.next_id, self.output_name,
                                                 feature_vector, b.batch_id,
                                                 b.batch_total, <<self.name>>)
                      IN /\ inst' = [inst EXCEPT ![i] =
                                       [self EXCEPT
                                          !.next_id = @ + 1,
                                          !.current_count = @ + 1,
                                          !.current_batch_id = b.current_batch_id,
                                          !.current_batch_count = b.current_batch_count,
                                          !.emitted = Append(@, msg)]]
                         /\ coordQ' = Append(coordQ, msg)
        /\ UNCHANGED <<config, mainPc, actors, sender_map, reqs, stopped, verrors>>

GeneratorTick == generate_data(MaxTicks)

(* main, streaming branch: after the sleep, System::current().stop() *)
Timeout ==
    /\ mainPc = "sleeping"
    /\ ~stopped
    /\ mainPc' = "done"
    /\ stopped' = TRUE
    /\ UNCHANGED <<config, coordQ, actors, inst, sender_map, reqs, verrors>>


(* main up to its first await: the coordinator is started and sent         *)
(* Initialize; the streaming branch sends Initialize once more before it   *)
(* sleeps.                                                                 *)
main_mailbox(cfg) ==
    IF cfg.http_mode
    THEN <<Initialize(cfg)>>
    ELSE <<Initialize(cfg), Initialize(cfg)>>

\* src -> {a, b} -> AND join -> sink
JoinGraph(src_params) ==
    Config(<<StepConfig("src", "DataGenerator", <<>>, <<"raw">>, src_params),
             StepConfig("a", "FeatureProcessor", <<"raw">>, <<"encoded_data">>, NoParams),
             StepConfig("b", "MLModel", <<"raw">>, <<"lr_output">>, NoParams),
             StepConfig("join", "StepJoinPoint", <<"encoded_data", "lr_output">>,
                        <<"joined">>, NoParams),
             StepConfig("sink", "Printer", <<"joined">>, <<>>, NoParams)>>, FALSE)

JoinGraphs ==
    {JoinGraph([NoParams EXCEPT !.limit = Some(1)]),
     JoinGraph([NoParams EXCEPT !.limit = Some(1), !.batch_mode = Some(TRUE),
                                !.batch_size = Some(2)])}

\* a step that lists the same input twice, fed by a source emitting batches of one
TwiceListedGraph ==
    Config(<<StepConfig("src", "DataGenerator", <<>>, <<"raw">>,
                        [NoParams EXCEPT !.limit = Some(2), !.batch_mode = Some(TRUE),
                                         !.batch_size = Some(1)]),
             StepConfig("sink", "Printer", <<"raw", "raw">>, <<>>, NoParams)>>, FALSE)

\* a sink of a kind that needs an output name (no actor is created for it), and
\* an output nobody consumes
NoHandleGraph ==
    Config(<<StepConfig("src", "DataGenerator", <<>>, <<"raw">>,
                        [NoParams EXCEPT !.limit = Some(2)]),
             StepConfig("fp", "FeatureProcessor", <<"raw">>, <<>>, NoParams),
             StepConfig("m", "MLModel", <<"raw">>, <<"lr_output">>, NoParams)>>, FALSE)

StreamConfigs == JoinGraphs \cup {TwiceListedGraph, NoHandleGraph}

InitStream ==
    /\ config \in StreamConfigs
    /\ mainPc = "sleeping"
    /\ coordQ = main_mailbox(config)
    /\ actors = EmptyMap
    /\ inst = <<>>
    /\ sender_map = EmptyMap
    /\ reqs = <<>>
    /\ stopped = FALSE
    /\ verrors = <<>>

NextStream ==
    \/ HandleInitialize
    \/ HandleProcessMessage
    \/ GeneratorTick
    \/ FeatureProcessorHandle
    \/ MLModelHandle
    \/ JoinHandle
    \/ PrinterHandle
    \/ Timeout

SpecStream == InitStream /\ [][NextStream]_vars

\* C1: every declared step is instantiated exactly once: no two instances were
\* ever created for one step name (so no handle was replaced, and one source
\* instance exists).
C1_EachStepInstantiatedOnce ==
    \A i, j \in DOMAIN inst : inst[i].name = inst[j].name => i = j

Quiescent ==
    /\ coordQ = <<>>
    /\ \A i \in DOMAIN inst :
          /\ inst[i].inbox = <<>>
          /\ inst[i].kind = "DataGenerator" => ~inst[i].running

EmittedBy(kind) ==
    Flatten([i \in DOMAIN inst |-> IF inst[i].kind = kind THEN inst[i].emitted ELSE <<>>])

\* C4: in the graph src -> {a, b} -> AND join -> sink, once everything sent has
\* been handled (and the run was not cut by the timeout), every message the
\* source emitted has exactly one join emission with its id, carrying a's
\* result for its data followed by b's result for its data.
C4_EverySourceMessageJoinedOnce ==
    (config \in JoinGraphs /\ ~stopped /\ Quiescent) =>
        LET sent == EmittedBy("DataGenerator") IN
        \A k \in DOMAIN sent :
            LET out == WithId(EmittedBy("StepJoinPoint"), sent[k].id) IN
            /\ Len(out) = 1
            /\ out[1].data = process_data("encoded_data", sent[k].data)
                                \o handle_local_prediction("lr_output", sent[k].data)

RouteStep ==
    /\ ~stopped
    /\ coordQ # <<>>
    /\ Head(coordQ).type = "ProcessMessage"
    /\ coordQ' = Tail(coordQ)

ListedUnder(node_id) ==
    LET adjacency == new_adjacency(config.steps) IN
    IF node_id \in DOMAIN adjacency THEN adjacency[node_id] ELSE <<>>

\* C10 as stated: routing m appends one copy of m to the inbox of every step
\* listed under m.node_id and changes nothing else.
C10_RouteOneCopyToEachListedStep ==
    [][RouteStep =>
        LET m    == Head(coordQ)
            down == Range(ListedUnder(m.node_id))
        IN /\ \A n \in down :
                 /\ n \in DOMAIN actors
                 /\ inst'[actors[n]] = [inst[actors[n]] EXCEPT !.inbox = Append(@, m)]
           /\ \A i \in DOMAIN inst :
                 (\A n \in down \cap DOMAIN actors : actors[n] # i) => inst'[i] = inst[i]
           /\ DOMAIN inst' = DOMAIN inst
           /\ actors' = actors]_vars

Copies(m, n) == [k \in 1..n |-> m]

\* C10 amended: routing m appends to the inbox of each registered handle one
\* copy of m, equal to m in every field, per listing of its step's name under
\* m.node_id, and changes nothing else; a listed step that has no registered
\* handle gets nothing, and when nothing is listed under m.node_id nothing is
\* delivered and no step changes.
C10_RouteOneCopyPerListingWithHandle ==
    [][RouteStep =>
        LET m    == Head(coordQ)
            down == ListedUnder(m.node_id)
            listings(i) == Cardinality({k \in DOMAIN down :
                               down[k] \in DOMAIN actors /\ actors[down[k]] = i})
        IN /\ DOMAIN inst' = DOMAIN inst
           /\ \A i \in DOMAIN inst :
                 inst'[i] = [inst[i] EXCEPT !.inbox = @ \o Copies(m, listings(i))]
           /\ actors' = actors]_vars

\* messages were routed to a name under which a step without a handle is
\* listed next to one with a handle, and to a name under which nothing is listed
C10_Witness ==
    /\ config = NoHandleGraph
    /\ coordQ = <<>>
    /\ \E i \in DOMAIN inst : inst[i].kind = "MLModel" /\ Len(inst[i].emitted) = 2


----------------------------------------------------------------------------
(* Request/response mode: main's rewrite of the loaded graph, the HTTP     *)
(* ingress and the HttpOutput sink.                                        *)

IsSourceType(step) == step.node_type \in {"DataGenerator", "CsvReader"}

IsKeptType(step) == ~IsSourceType(step)

(* the first output of the last removed source step that has one *)
RECURSIVE data_generator_output(_, _)
data_generator_output(steps, so_far) ==
    IF steps = <<>> THEN so_far
    ELSE data_generator_output(Tail(steps),
            IF IsSourceType(Head(steps)) /\ Head(steps).outputs # <<>>
            THEN Some(Head(steps).outputs[1])
            ELSE so_far)

replace_input(inputs, output_name) ==
    [k \in DOMAIN inputs |-> IF inputs[k] = output_name THEN "http_input" ELSE inputs[k]]

(* main, http mode: the source steps are removed, the inputs naming the    *)
(* removed source's output become "http_input", the last step without      *)
(* outputs becomes the HttpOutput step "http_output" reading its first     *)
(* input, and the first BatchPooler producing that input gets window_size  *)
(* 1.  `ok` is FALSE when the final step has no input: its input becomes   *)
(* null and the configuration no longer deserializes.                      *)
http_rewrite(steps) ==
    LET kept    == SelectSeq(steps, IsKeptType)
        out     == data_generator_output(steps, None)
        renamed == IF IsSome(out)
                   THEN [k \in DOMAIN kept |->
                           [kept[k] EXCEPT !.inputs = replace_input(@, out[1])]]
                   ELSE kept
        finals  == {k \in DOMAIN renamed : renamed[k].outputs = <<>>}
    IN IF finals = {}
       THEN [ok |-> TRUE, steps |-> renamed]
       ELSE LET f == CHOOSE k \in finals : \A j \in finals : j <= k IN
            IF renamed[f].inputs = <<>>
            THEN [ok |-> FALSE, steps |-> renamed]
            ELSE LET input_name == renamed[f].inputs[1]
                     with_final == [renamed EXCEPT ![f] =
                                      [@ EXCEPT !.node_type = "HttpOutput",
                                                !.name = "http_output",
                                                !.outputs = <<>>,
                                                !.inputs = <<input_name>>]]
                     poolers == {k \in DOMAIN with_final :
                                   /\ with_final[k].node_type = "BatchPooler"
                                   /\ input_name \in Range(with_final[k].outputs)}
                 IN IF poolers = {}
                    THEN [ok |-> TRUE, steps |-> with_final]
                    ELSE LET b == CHOOSE k \in poolers : \A j \in poolers : k <= j IN
                         [ok |-> TRUE,
                          steps |-> [with_final EXCEPT
                                       ![b].params.window_size = Some(1)]]

(* A JSON request body: its "features" member, if any, is an array of      *)
(* numbers and other values.                                               *)
Num(v) == [t |-> "number", v |-> v]

Str == [t |-> "string", v |-> 0]

IsNumber(item) == item.t = "number"

(* handle_http_request: json_payload["features"].as_array()                *)
(* .unwrap_or(&vec![]).iter().filter_map(|v| v.as_f64()).collect()         *)
parse_features(json_payload) ==
    IF IsSome(json_payload.features)
    THEN LET numbers == SelectSeq(json_payload.features[1], IsNumber)
         IN [k \in DOMAIN numbers |-> numbers[k].v]
    ELSE <<>>

(* What becomes of the request whose sender is dropped: its receiver       *)
(* resolves to Err.                                                        *)
drop_sender(requests, r) ==
    IF requests[r].chan.state = "open"
    THEN [requests EXCEPT ![r].chan.state = "dropped"]
    ELSE requests

(* DashMap::remove(&request_id) by the ingress: the sender stored under    *)
(* the id, whichever request inserted it, is dropped.                      *)
ingress_remove(map, requests, request_id) ==
    IF request_id \in DOMAIN map
    THEN [map |-> MapRemove(map, request_id),
          reqs |-> drop_sender(requests, map[request_id])]
    ELSE [map |-> map, reqs |-> requests]

Request(request_id, json_payload) ==
    [id |-> request_id, payload |-> json_payload, state |-> "awaiting",
     chan |-> [state |-> "open", data |-> <<>>],
     status |-> 0, header |-> 0, body_json |-> <<>>, body_text |-> ""]

Respond(request, status, body_json, body_text) ==
    [request EXCEPT !.state = "responded", !.status = status,
                    !.header = request.id,
                    !.body_json = body_json, !.body_text = body_text]


MaxRequests == 2

\* the values rand::random::<u64>() returns are represented by two ids
RequestIds == {1, 2}

Payloads ==
    {[features |-> Some(<<Num(1), Num(2)>>)],
     [features |-> Some(<<Num(3)>>)],
     [features |-> Some(<<Str, Num(4)>>)],
     [features |-> None]}

HttpRequestBeginBatchOne ==
    /\ ~stopped
    /\ mainPc = "serving"
    /\ Len(reqs) < MaxRequests
    /\ \E request_id \in RequestIds, json_payload \in Payloads :
          LET r        == Len(reqs) + 1
              request  == Request(request_id, json_payload)
              features == parse_features(json_payload)
          IN IF has_sender_map
             THEN /\ reqs' = Append(IF request_id \in DOMAIN sender_map
                                    THEN drop_sender(reqs, sender_map[request_id])
                                    ELSE reqs,
                                    request)
                  /\ sender_map' = MapPut(sender_map, request_id, r)
                  /\ coordQ' = Append(coordQ,
                                  ProcessMessage(request_id, "http_input", features,
                                                 Some(1), Some(1), <<>>))
             ELSE /\ reqs' = Append(reqs,
                                Respond(request, 400, <<>>,
                                        "No sender_map available to process the request"))
                  /\ UNCHANGED <<sender_map, coordQ>>
    /\ UNCHANGED <<config, mainPc, actors, inst, stopped, verrors>>

(* handle_http_request up to `rx.await`: draw the id, parse the features,  *)
(* insert the sender under the id (the sender already stored under that id *)
(* is replaced and dropped) and send the message to the coordinator.       *)
(* Without a registry the request is answered 400 at once.                 *)
HttpRequestBegin ==
    /\ ~stopped
    /\ mainPc = "serving"
    /\ Len(reqs) < MaxRequests
    /\ \E request_id \in RequestIds, json_payload \in Payloads :
          LET r        == Len(reqs) + 1
              request  == Request(request_id, json_payload)
              features == parse_features(json_payload)
          IN IF has_sender_map
             THEN /\ reqs' = Append(IF request_id \in DOMAIN sender_map
                                    THEN drop_sender(reqs, sender_map[request_id])
                                    ELSE reqs,
                                    request)
                  /\ sender_map' = MapPut(sender_map, request_id, r)
                  /\ coordQ' = Append(coordQ,
                                  ProcessMessage(request_id, "http_input", features,
                                                 Some(request_id), Some(1), <<>>))
             ELSE /\ reqs' = Append(reqs,
                                Respond(request, 400, <<>>,
                                        "No sender_map available to process the request"))
                  /\ UNCHANGED <<sender_map, coordQ>>
    /\ UNCHANGED <<config, mainPc, actors, inst, stopped, verrors>>

(* handle_http_request from `rx.await` on: the receiver has resolved, to   *)
(* the data sent or to Err because its sender was dropped; the entry under *)
(* the request's id is removed and the response returned.                  *)
HttpRequestComplete ==
    \E r \in DOMAIN reqs :
        /\ ~stopped
        /\ reqs[r].state = "awaiting"
        /\ reqs[r].chan.state # "open"
        /\ LET removed == ingress_remove(sender_map, reqs, reqs[r].id) IN
           /\ sender_map' = removed.map
           /\ reqs' = [removed.reqs EXCEPT ![r] =
                         IF reqs[r].chan.state = "sent"
                         THEN Respond(@, 200, reqs[r].chan.data, "")
                         ELSE Respond(@, 500, <<>>, "Failed to process request")]
        /\ UNCHANGED <<config, mainPc, coordQ, actors, inst, stopped, verrors>>

(* Handler<ProcessMessage> for HttpOutput: the sender stored under the     *)
(* message's id is removed and sent the message's data; send fails only    *)
(* when the receiving request is gone.                                     *)
HttpOutputHandle ==
    \E i \in DOMAIN inst :
        /\ CanHandle(i, {"HttpOutput"})
        /\ LET msg == Head(inst[i].inbox) IN
           /\ inst' = [inst EXCEPT ![i].inbox = Tail(@),
                                   ![i].handled = Append(@, msg)]
           /\ IF msg.id \in DOMAIN sender_map
              THEN LET r == sender_map[msg.id] IN
                   /\ sender_map' = MapRemove(sender_map, msg.id)
                   /\ reqs' = IF reqs[r].state = "awaiting" /\ reqs[r].chan.state = "open"
                              THEN [reqs EXCEPT ![r].chan =
                                      [state |-> "sent", data |-> msg.data]]
                              ELSE reqs
              ELSE UNCHANGED <<sender_map, reqs>>
        /\ UNCHANGED <<config, mainPc, coordQ, actors, stopped, verrors>>

\* the graphs as loaded: source -> printer, and source -> model -> printer
LoadedHttpGraphs ==
    {<<StepConfig("src", "DataGenerator", <<>>, <<"raw">>, NoParams),
       StepConfig("printer", "Printer", <<"raw">>, <<>>, NoParams)>>,
     <<StepConfig("src", "DataGenerator", <<>>, <<"raw">>, NoParams),
       StepConfig("m", "MLModel", <<"raw">>, <<"lr_output">>, NoParams),
       StepConfig("printer", "Printer", <<"lr_output">>, <<>>, NoParams)>>}

\* http_input -> sink
DegenerateGraph ==
    <<StepConfig("http_output", "HttpOutput", <<"http_input">>, <<>>, NoParams)>>

InitHttp ==
    /\ \E loaded \in LoadedHttpGraphs :
          /\ http_rewrite(loaded).ok
          /\ config = Config(http_rewrite(loaded).steps, TRUE)
    /\ mainPc = "serving"
    /\ coordQ = main_mailbox(config)
    /\ actors = EmptyMap
    /\ inst = <<>>
    /\ sender_map = EmptyMap
    /\ reqs = <<>>
    /\ stopped = FALSE
    /\ verrors = <<>>

NextHttp ==
    \/ HandleInitialize
    \/ HandleProcessMessage
    \/ HttpRequestBegin
    \/ MLModelHandle
    \/ HttpOutputHandle
    \/ HttpRequestComplete

SpecHttp == InitHttp /\ [][NextHttp]_vars

AllNumbers(json_payload) ==
    /\ IsSome(json_payload.features)
    /\ \A k \in DOMAIN json_payload.features[1] : IsNumber(json_payload.features[1][k])

\* C8: with the graph http_input -> sink, every response to a request whose
\* features are the numbers xs is a 200 with body xs and with the request's
\* generated id in the dag-request-id header, however many requests are in
\* flight.
C8_DegenerateRoundTrip ==
    config.steps = DegenerateGraph =>
        \A r \in DOMAIN reqs :
            (reqs[r].state = "responded" /\ AllNumbers(reqs[r].payload)) =>
                /\ reqs[r].status = 200
                /\ reqs[r].body_json = parse_features(reqs[r].payload)
                /\ reqs[r].header = reqs[r].id

NothingInFlight ==
    /\ coordQ = <<>>
    /\ \A i \in DOMAIN inst : inst[i].inbox = <<>> /\ inst[i].spawned = <<>>
    /\ \A r \in DOMAIN reqs : reqs[r].chan.state = "open" \/ reqs[r].state = "responded"

\* C9: no accepted request is left without a response: once nothing is in
\* flight any more (no message in a mailbox, no reply waiting to be read),
\* every accepted request has been answered, with 200 or with 500, and its
\* registry entry is gone.
C9_EveryRequestAnswered ==
    (~stopped /\ NothingInFlight) =>
        \A r \in DOMAIN reqs :
            /\ reqs[r].state = "responded"
            /\ reqs[r].status \in {200, 500}
            /\ reqs[r].id \notin DOMAIN sender_map


----------------------------------------------------------------------------
(* Order of delivery in the running system. *)

\* the messages of a log that carry node_id o, in order
RECURSIVE FromOutput(_, _)
FromOutput(log, o) ==
    IF log = <<>> THEN <<>>
    ELSE IF Head(log).node_id = o
         THEN <<Head(log)>> \o FromOutput(Tail(log), o)
         ELSE FromOutput(Tail(log), o)

\* every message of a log repeated n times in place
RECURSIVE Repeated(_, _)
Repeated(log, n) ==
    IF log = <<>> THEN <<>> ELSE Copies(Head(log), n) \o Repeated(Tail(log), n)

\* whether `got` is an order-preserving merge of prefixes of the sequences sent[e]
RECURSIVE MergesPrefixes(_, _)
MergesPrefixes(got, sent) ==
    \/ got = <<>>
    \/ \E e \in DOMAIN sent :
          /\ sent[e] # <<>>
          /\ Head(sent[e]) = Head(got)
          /\ MergesPrefixes(Tail(got), [sent EXCEPT ![e] = Tail(@)])

OutputNames == {inst[i].output_name : i \in DOMAIN inst} \ {""}

\* how many times the step of instance d is listed under the name o
ListingsOf(d, o) ==
    Cardinality({k \in DOMAIN ListedUnder(o) : ListedUnder(o)[k] = inst[d].name})

\* C11: for every destination and every output name, the messages the
\* destination has handled and holds in its inbox under that name, in that
\* order, are the messages each emitting instance sent under that name, in
\* emission order and without gaps (merged across instances, one copy per
\* listing of the destination).
C11_DeliveredInEmissionOrder ==
    \A d \in DOMAIN inst : \A o \in OutputNames :
        MergesPrefixes(FromOutput(inst[d].handled \o inst[d].inbox, o),
                       [e \in DOMAIN inst |->
                           IF inst[e].output_name = o
                           THEN Repeated(inst[e].emitted, ListingsOf(d, o))
                           ELSE <<>>])

C11_Witness ==
    /\ config = NoHandleGraph
    /\ \E d \in DOMAIN inst :
          /\ inst[d].kind = "MLModel"
          /\ Len(inst[d].handled) = 4
          /\ inst[d].handled[1].id = 1
          /\ inst[d].handled[4].id = 2


----------------------------------------------------------------------------
(* What the validator reported (verrors) against the declared graph. *)

ErrorsOf(kind) == {k \in DOMAIN verrors : verrors[k].kind = kind}

ErrorsAbout(kind, subject) == {k \in ErrorsOf(kind) : verrors[k].subject = subject}

Produced(steps) == UNION {Range(steps[i].outputs) : i \in DOMAIN steps}

\* the occurrences <<i, j>> of an input of step i that no step outputs
UnproducedInputs(steps) ==
    {ij \in (DOMAIN steps) \X (1..2) :
        /\ ij[2] \in DOMAIN steps[ij[1]].inputs
        /\ steps[ij[1]].inputs[ij[2]] \notin Produced(steps)}

UnproducedNames(steps) == {steps[ij[1]].inputs[ij[2]] : ij \in UnproducedInputs(steps)}

\* the declarations whose name was already declared before them
RepeatedNames(steps) ==
    {i \in DOMAIN steps : \E k \in 1..(i - 1) : steps[k].name = steps[i].name}

SinkCount(steps) == Cardinality({i \in DOMAIN steps : steps[i].outputs = <<>>})

SourceCount(steps) == Cardinality({i \in DOMAIN steps : steps[i].inputs = <<>>})

\* C12: the validator reports every check the graph violates, whatever else
\* failed: a cycle, a sink count other than one, one error per repeated
\* occurrence of a step name and (in streaming mode) one per un-produced input;
\* and the run goes on only when nothing was reported.
C12_EveryViolationReported ==
    Validated =>
        /\ GraphHasCycle(config.steps) => ErrorsOf("cycles") # {}
        /\ SinkCount(config.steps) # 1 => ErrorsOf("sink_count") # {}
        /\ Cardinality(ErrorsOf("duplicate_name")) = Cardinality(RepeatedNames(config.steps))
        /\ ~config.http_mode =>
              Cardinality(ErrorsOf("no_producer")) = Cardinality(UnproducedInputs(config.steps))
        /\ stopped <=> verrors # <<>>

\* C13: in streaming mode validation succeeds only if every input is some
\* step's output, and every input occurrence without a producer has its own
\* error naming the step that consumes it.
C13_ProducerCoverage ==
    (Validated /\ ~config.http_mode) =>
        /\ verrors = <<>> => UnproducedInputs(config.steps) = {}
        /\ \A n \in ValNames :
              Cardinality(ErrorsAbout("no_producer", n))
                 = Cardinality({ij \in UnproducedInputs(config.steps) :
                                   config.steps[ij[1]].name = n})

C13_Witness ==
    /\ Validated
    /\ ~config.http_mode
    /\ ErrorsAbout("no_producer", "s") # {}
    /\ Cardinality(ErrorsAbout("no_producer", "t")) = 2

\* C14: in request/response mode the producer check passes when at most one
\* input name has no producer, however many steps consume it, and fails when
\* two or more names have none.
C14_HttpOneUnproducedName ==
    (Validated /\ config.http_mode) =>
        (ErrorsOf("http_mode_no_producer") # {}
            <=> Cardinality(UnproducedNames(config.steps)) >= 2)

\* C15: validation succeeds only with exactly one sink and, in streaming
\* mode, exactly one source; the sink count is reported whenever it is not
\* one, the source count whenever it is not one in streaming mode and never in
\* request/response mode.
C15_ShapeChecks ==
    Validated =>
        /\ verrors = <<>> =>
              /\ SinkCount(config.steps) = 1
              /\ ~config.http_mode => SourceCount(config.steps) = 1
        /\ ErrorsOf("sink_count") # {} <=> SinkCount(config.steps) # 1
        /\ ErrorsOf("source_count") # {}
              <=> (~config.http_mode /\ SourceCount(config.steps) # 1)

C15_Witness ==
    /\ Validated
    /\ config.http_mode
    /\ SourceCount(config.steps) = 0
    /\ SinkCount(config.steps) = 1
    /\ verrors = <<>>
    /\ inst # <<>>


----------------------------------------------------------------------------
(* The validator on graphs with poolers: a source (generator or CSV        *)
(* reader, with or without batch emission), one or two poolers in a row    *)
(* with every choice of the "mode" and "window_size" parameters, and a     *)
(* printer, run in streaming mode.                                         *)

PoolerWindow == 2

PoolerParams ==
    {[NoParams EXCEPT !.mode = md, !.window_size = w] :
        md \in {None, Some("BatchId"), Some("Window")},
        w \in {None, Some(PoolerWindow)}}

SourceDecls ==
    {StepConfig("src", kind, <<>>, <<"raw">>,
                [NoParams EXCEPT !.limit = Some(1), !.batch_mode = bm,
                                 !.batch_size = Some(2)]) :
        kind \in {"DataGenerator", "CsvReader"},
        bm \in {None, Some(TRUE), Some(FALSE)}}

PoolerGraphs ==
    {<<src, StepConfig("pool", "BatchPooler", <<"raw">>, <<"pooled">>, p),
       StepConfig("sink", "Printer", <<"pooled">>, <<>>, NoParams)>> :
        src \in SourceDecls, p \in PoolerParams}
    \cup
    {<<src, StepConfig("pool", "BatchPooler", <<"raw">>, <<"pooled">>, p),
       StepConfig("pool2", "BatchPooler", <<"pooled">>, <<"pooled2">>, q),
       StepConfig("sink", "Printer", <<"pooled2">>, <<>>, NoParams)>> :
        src \in SourceDecls, p \in PoolerParams, q \in PoolerParams}

InitPoolerGraph ==
    /\ \E steps \in PoolerGraphs : config = Config(steps, FALSE)
    /\ mainPc = "sleeping"
    /\ coordQ = main_mailbox(config)
    /\ actors = EmptyMap
    /\ inst = <<>>
    /\ sender_map = EmptyMap
    /\ reqs = <<>>
    /\ stopped = FALSE
    /\ verrors = <<>>

SpecPoolerGraph == InitPoolerGraph /\ [][HandleInitialize]_vars

NoInitializePending ==
    \A k \in DOMAIN coordQ : coordQ[k].type # "Initialize"

InitializeHandled == stopped \/ NoInitializePending

\* a pooler that will run in BatchId mode: created without a usable window_size
RunsInBatchIdMode(step) ==
    /\ step.node_type = "BatchPooler"
    /\ create_step_actor(step, FALSE).actor.pooling.kind = "BatchId"

HasBatchSource(steps) ==
    \E i \in DOMAIN steps :
        /\ steps[i].node_type \in {"DataGenerator", "CsvReader"}
        /\ steps[i].params.batch_mode = Some(TRUE)

\* C16: after validation, every pooler that will run in BatchId mode while no
\* source has batch emission enabled has an error naming it, and when a
\* source (generator or CSV reader) has batch emission enabled no pooler
\* error is reported.
C16_BatchIdPoolerNeedsBatchSource ==
    InitializeHandled =>
        /\ \A i \in DOMAIN config.steps :
              (RunsInBatchIdMode(config.steps[i]) /\ ~HasBatchSource(config.steps))
                 => ErrorsAbout("pooler_without_batch_generator",
                                config.steps[i].name) # {}
        /\ HasBatchSource(config.steps)
              => ErrorsOf("pooler_without_batch_generator") = {}


\* C17: when validation of the configuration carried by Initialize reported
\* errors, no step was instantiated, the table of handles is empty and the
\* system was stopped, so nothing can be delivered to a step.
C17_NothingInstantiatedOnErrors ==
    verrors # <<>> => (inst = <<>> /\ actors = EmptyMap /\ stopped)

C17_Witness ==
    /\ Len(verrors) >= 2
    /\ coordQ = <<>>
    /\ Len(config.steps) = 3
    /\ inst = <<>>
    /\ stopped


\* C18: once Initialize has been handled for a configuration that passed
\* validation, a handle is registered for every declared step, so every name
\* listed in the adjacency has a handle to route to.
C18_EveryDeclaredStepHasHandle ==
    (NoInitializePending /\ verrors = <<>>) =>
        \A i \in DOMAIN config.steps : config.steps[i].name \in DOMAIN actors


----------------------------------------------------------------------------
(* The request/response sink and the registry. *)

\* the sink instance i takes the message at the head of its inbox in this step
SinkTakes(i) ==
    /\ inst[i].kind = "HttpOutput"
    /\ inst[i].inbox # <<>>
    /\ inst'[i].handled = Append(inst[i].handled, Head(inst[i].inbox))

\* The handler itself: when the sink takes a message with id i and the
\* registry holds an entry for i, the entry is removed and the message's data
\* is sent on that entry's reply channel; when it holds none, the registry and
\* every reply channel stay as they are.  A reply channel that holds a reply
\* never changes again, and only the sink puts a reply on a channel.
SinkHandlerContract ==
    [][/\ \A i \in DOMAIN inst :
             SinkTakes(i) =>
                LET msg == Head(inst[i].inbox) IN
                IF msg.id \in DOMAIN sender_map
                THEN /\ sender_map' = MapRemove(sender_map, msg.id)
                     /\ reqs' = [reqs EXCEPT ![sender_map[msg.id]].chan =
                                    [state |-> "sent", data |-> msg.data]]
                ELSE /\ sender_map' = sender_map
                     /\ reqs' = reqs
       /\ \A r \in DOMAIN reqs :
             /\ reqs[r].chan.state = "sent" => reqs'[r].chan = reqs[r].chan
             /\ (reqs[r].chan.state # "sent" /\ reqs'[r].chan.state = "sent")
                   => \E i \in DOMAIN inst : SinkTakes(i)]_vars

\* the first message of a log that carries the id
FirstWithId(log, id) ==
    log[CHOOSE k \in DOMAIN log :
            log[k].id = id /\ \A j \in 1..(k - 1) : log[j].id # id]

\* C19: the sink removes the registry entry of a message's id and sends the
\* message's data on that entry's reply channel, and leaves everything alone
\* when there is no entry; hence the reply a request holds is the first
\* message with the request's id that reached the sink.
C19_ReplyIsFirstMessageWithId ==
    \A r \in DOMAIN reqs :
        reqs[r].chan.state = "sent" =>
            \E i \in DOMAIN inst :
                /\ inst[i].kind = "HttpOutput"
                /\ \E k \in DOMAIN inst[i].handled :
                      inst[i].handled[k].id = reqs[r].id
                /\ reqs[r].chan.data = FirstWithId(inst[i].handled, reqs[r].id).data

----------------------------------------------------------------------------
(* Ids of the source's emissions in streaming mode. *)

\* C20: the messages the source sent to the coordinator in one streaming run
\* carry pairwise distinct ids (as strictly increasing ids would): no two
\* source emissions share an id.
C20_SourceIdsDistinct ==
    LET sent == EmittedBy("DataGenerator") IN
        \A j, k \in DOMAIN sent : sent[j].id = sent[k].id => j = k

----------------------------------------------------------------------------
(* The streaming pipeline src -> one stateless transform -> printer. *)

\* src (limit n, no batch emission) -> transform -> printer
PipelineGraph(n, transform) ==
    Config(<<StepConfig("src", "DataGenerator", <<>>, <<"raw">>,
                        [NoParams EXCEPT !.limit = Some(n),
                                         !.batch_mode = Some(FALSE)]),
             StepConfig("t", transform, <<"raw">>, <<"out">>, NoParams),
             StepConfig("printer", "Printer", <<"out">>, <<>>, NoParams)>>, FALSE)

PipelineGraphs ==
    {PipelineGraph(n, transform) :
        n \in 1..MaxTicks, transform \in {"FeatureProcessor", "MLModel"}}

InitPipeline ==
    /\ config \in PipelineGraphs
    /\ mainPc = "sleeping"
    /\ coordQ = main_mailbox(config)
    /\ actors = EmptyMap
    /\ inst = <<>>
    /\ sender_map = EmptyMap
    /\ reqs = <<>>
    /\ stopped = FALSE
    /\ verrors = <<>>

NextPipeline ==
    \/ HandleInitialize
    \/ HandleProcessMessage
    \/ GeneratorTick
    \/ FeatureProcessorHandle
    \/ MLModelHandle
    \/ PrinterHandle
    \/ Timeout

SpecPipeline == InitPipeline /\ [][NextPipeline]_vars

HandledBy(kind) ==
    Flatten([i \in DOMAIN inst |-> IF inst[i].kind = kind THEN inst[i].handled ELSE <<>>])

\* C21: in the pipeline with limit n the printer is delivered one message per
\* source id 1..n and nothing more: never more than n messages, and never two
\* with one id.
C21_PrinterGetsOnePerSourceId ==
    LET got == HandledBy("Printer") IN
        /\ Len(got) <= config.steps[1].params.limit[1]
        /\ \A j, k \in DOMAIN got : got[j].id = got[k].id => j = k

----------------------------------------------------------------------------
(* The join's handler, message by message. *)

\* the join takes the message at the head of its inbox in this step
JoinTakes ==
    /\ inst[1].kind = "StepJoinPoint"
    /\ inst[1].inbox # <<>>
    /\ inst'[1].handled = Append(inst[1].handled, Head(inst[1].inbox))

\* pending[K] as it is once the message has been entered
Entered(pending, msg) ==
    LET K == join_key(msg) IN
    [n \in (IF K \in DOMAIN pending THEN DOMAIN pending[K] ELSE {}) \cup {msg.node_id} |->
        IF n = msg.node_id THEN msg.data ELSE pending[K][n]]

\* C22: in AND mode, when the message taken makes pending[K] contain every
\* expected name (K = batch_id if present, else id), exactly one message is
\* emitted, with node_id the join's output name, id K, the batch fields of the
\* triggering message and the data of pending[K] concatenated in the declared
\* order of expected_nodes, and pending[K] is removed; otherwise nothing is
\* emitted.  So no pending entry ever contains all expected names.
C22_AndEmitsInDeclaredOrder ==
    /\ [][(IsAndJoin /\ JoinTakes) =>
            LET msg   == Head(inst[1].inbox)
                K     == join_key(msg)
                entry == Entered(inst[1].pending, msg)
                exp   == inst[1].expected_nodes
            IN IF Range(exp) \subseteq DOMAIN entry
               THEN /\ Len(coordQ') = Len(coordQ) + 1
                    /\ SubSeq(coordQ', 1, Len(coordQ)) = coordQ
                    /\ LET out == coordQ'[Len(coordQ')] IN
                          /\ out.node_id = inst[1].output_name
                          /\ out.id = K
                          /\ out.batch_id = msg.batch_id
                          /\ out.batch_total = msg.batch_total
                          /\ out.data = Flatten([k \in DOMAIN exp |-> entry[exp[k]]])
                    /\ K \notin DOMAIN inst'[1].pending
               ELSE coordQ' = coordQ]_vars
    /\ [](IsAndJoin =>
            \A K \in DOMAIN inst[1].pending :
                ~(Range(inst[1].expected_nodes) \subseteq DOMAIN inst[1].pending[K]))

\* b arrived before a for key 1 and the emission carries a's data first
C22_Witness ==
    /\ IsAndJoin
    /\ inst[1].expected_nodes = <<"a", "b">>
    /\ Len(inst[1].handled) = 2
    /\ inst[1].handled[1].node_id = "b"
    /\ inst[1].handled[2].node_id = "a"
    /\ join_key(inst[1].handled[1]) = 1
    /\ join_key(inst[1].handled[2]) = 1
    /\ Len(coordQ) = 1
    /\ coordQ[1].data = inst[1].handled[2].data \o inst[1].handled[1].data
    /\ 1 \notin DOMAIN inst[1].pending

\* the names that have arrived in `log` (all for one key) since the arrivals
\* last completed the expected names
RECURSIVE Held(_, _, _)
Held(log, expected, have) ==
    IF log = <<>> THEN have
    ELSE LET now == have \cup {Head(log).node_id} IN
         IF expected \subseteq now
         THEN Held(Tail(log), expected, {})
         ELSE Held(Tail(log), expected, now)

\* C23: in AND mode a message for K taken after an emission for K (nothing
\* has arrived for K since) is not dropped: unless it completes the expected
\* names by itself, nothing is emitted and pending[K] becomes a fresh entry
\* holding that message's data alone; and a message for K causes an emission
\* only when every expected name has arrived for K since the last emission.
C23_AndStartsAfreshAfterEmission ==
    [][(IsAndJoin /\ JoinTakes) =>
          LET msg  == Head(inst[1].inbox)
              K    == join_key(msg)
              log  == ForKey(inst[1].handled, K)
              exp  == Range(inst[1].expected_nodes)
              held == Held(log, exp, {})
          IN /\ (coordQ' # coordQ) <=> (exp \subseteq held \cup {msg.node_id})
             /\ (log # <<>> /\ held = {} /\ ~(exp \subseteq {msg.node_id})) =>
                   /\ coordQ' = coordQ
                   /\ K \in DOMAIN inst'[1].pending
                   /\ inst'[1].pending[K] = [n \in {msg.node_id} |-> msg.data]]_vars

\* a, b and then a again for key 1: one emission, and the entry for key 1
\* holds the third message's data only
C23_Witness ==
    /\ IsAndJoin
    /\ Len(inst[1].handled) = 3
    /\ \A k \in 1..3 : join_key(inst[1].handled[k]) = 1
    /\ inst[1].handled[1].node_id = "a"
    /\ inst[1].handled[2].node_id = "b"
    /\ inst[1].handled[3].node_id = "a"
    /\ inst[1].handled[3].data # inst[1].handled[1].data
    /\ Len(coordQ) = 1
    /\ 1 \in DOMAIN inst[1].pending
    /\ inst[1].pending[1] = [n \in {"a"} |-> inst[1].handled[3].data]

\* C24: in OR mode a message for K taken while completed_ids has no entry for
\* K (the first arrival for K is one) is emitted with the same data, batch_id
\* and batch_total, and completed_ids[K] is set to |expected_nodes| - 1; a
\* message for K taken while the entry exists is dropped without emission and
\* decrements the counter; the entry is deleted instead of holding 0.  So an
\* entry never holds 0, and after exactly |expected_nodes| arrivals for K no
\* entry for K remains.
C24_OrCountsDownAndForgets ==
    /\ [][(IsOrJoin /\ JoinTakes) =>
            LET msg  == Head(inst[1].inbox)
                K    == join_key(msg)
                E    == Len(inst[1].expected_nodes)
                ids  == inst[1].completed_ids
                ids2 == inst'[1].completed_ids
            IN IF K \in DOMAIN ids
               THEN /\ coordQ' = coordQ
                    /\ IF ids[K] - 1 = 0
                       THEN K \notin DOMAIN ids2
                       ELSE K \in DOMAIN ids2 /\ ids2[K] = ids[K] - 1
               ELSE /\ Len(coordQ') = Len(coordQ) + 1
                    /\ SubSeq(coordQ', 1, Len(coordQ)) = coordQ
                    /\ LET out == coordQ'[Len(coordQ')] IN
                          /\ out.data = msg.data
                          /\ out.batch_id = msg.batch_id
                          /\ out.batch_total = msg.batch_total
                    /\ IF E - 1 = 0
                       THEN K \notin DOMAIN ids2
                       ELSE K \in DOMAIN ids2 /\ ids2[K] = E - 1]_vars
    /\ [](IsOrJoin =>
            \A K \in JoinKeys :
                LET n == Len(ForKey(inst[1].handled, K)) IN
                /\ K \in DOMAIN inst[1].completed_ids => inst[1].completed_ids[K] > 0
                /\ n = 0 => K \notin DOMAIN inst[1].completed_ids
                /\ n = Len(inst[1].expected_nodes) => K \notin DOMAIN inst[1].completed_ids)

\* two arrivals for key 1: the first emitted, the second dropped, the entry
\* gone; one arrival for key 2, whose entry holds 1
C24_Witness ==
    /\ IsOrJoin
    /\ Len(inst[1].expected_nodes) = 2
    /\ Len(ForKey(inst[1].handled, 1)) = 2
    /\ Len(WithId(coordQ, 1)) = 1
    /\ 1 \notin DOMAIN inst[1].completed_ids
    /\ Len(ForKey(inst[1].handled, 2)) = 1
    /\ 2 \in DOMAIN inst[1].completed_ids
    /\ inst[1].completed_ids[2] = 1

----------------------------------------------------------------------------
(* The pooler's handler, message by message. *)

\* the pooler takes the message at the head of its inbox in this step
PoolerTakes ==
    /\ inst[1].kind = "BatchPooler"
    /\ inst[1].inbox # <<>>
    /\ inst'[1].handled = Append(inst[1].handled, Head(inst[1].inbox))

\* this step appends exactly one message to the coordinator's mailbox
EmitsOne ==
    /\ Len(coordQ') = Len(coordQ) + 1
    /\ SubSeq(coordQ', 1, Len(coordQ)) = coordQ

\* C25 as stated: after every handled message, the data of each message a
\* Window pooler (window_size >= 1) has received is in its emissions, once.
C25_EveryMessageInExactlyOneEmission ==
    (IsWindowPooler /\ inst[1].pooling.size >= 1) =>
        DataOf(inst[1].emitted) = DataOf(inst[1].handled)

\* C25 amended: a Window emission carries the id, batch_id and batch_total of
\* the triggering (last buffered) message and the buffered data in insertion
\* order, and leaves the buffer empty; for window_size >= 1, after every
\* handled message |buffer| < window_size, and the emissions followed by the
\* buffer hold each received message's data once, in arrival order: a
\* message's data is in exactly one emission once its window has filled and
\* in none while fewer than window_size messages have followed the last
\* emission (the window does not slide, and a partial window is not emitted).
C25_WindowEmitsDisjointFullWindows ==
    /\ [][(IsWindowPooler /\ PoolerTakes) =>
            LET msg == Head(inst[1].inbox)
                buf == Append(inst[1].window_buffer, msg)
            IN IF Len(buf) >= inst[1].pooling.size
               THEN /\ EmitsOne
                    /\ LET out == coordQ'[Len(coordQ')] IN
                          /\ out.id = msg.id
                          /\ out.batch_id = msg.batch_id
                          /\ out.batch_total = msg.batch_total
                          /\ out.data = DataOf(buf)
                    /\ inst'[1].window_buffer = <<>>
               ELSE /\ coordQ' = coordQ
                    /\ inst'[1].window_buffer = buf]_vars
    /\ []((IsWindowPooler /\ inst[1].pooling.size >= 1) =>
            /\ Len(inst[1].window_buffer) < inst[1].pooling.size
            /\ Len(inst[1].emitted) = Len(inst[1].handled) \div inst[1].pooling.size
            /\ DataOf(inst[1].emitted) \o DataOf(inst[1].window_buffer)
                  = DataOf(inst[1].handled))

\* window of two, three messages handled: one emission with the second
\* message's id and the first two messages' data, the third still buffered
C25_Witness ==
    /\ IsWindowPooler
    /\ inst[1].pooling.size = 2
    /\ Len(inst[1].handled) = 3
    /\ Len(inst[1].emitted) = 1
    /\ inst[1].emitted[1].id = inst[1].handled[2].id
    /\ inst[1].emitted[1].data = inst[1].handled[1].data \o inst[1].handled[2].data
    /\ inst[1].window_buffer = <<inst[1].handled[3]>>

----------------------------------------------------------------------------
(* The streaming pipeline batch source -> BatchId pooler -> printer. *)

\* src (batches of two, with or without a limit) -> pool (no window_size) -> printer
BatchPipelineGraph(limit) ==
    Config(<<StepConfig("src", "DataGenerator", <<>>, <<"raw">>,
                        [NoParams EXCEPT !.limit = limit,
                                         !.batch_mode = Some(TRUE),
                                         !.batch_size = Some(2)]),
             StepConfig("pool", "BatchPooler", <<"raw">>, <<"pooled">>, NoParams),
             StepConfig("printer", "Printer", <<"pooled">>, <<>>, NoParams)>>, FALSE)

BatchPipelineGraphs ==
    {BatchPipelineGraph(limit) : limit \in {None} \cup {Some(n) : n \in 1..MaxTicks}}

InitBatchPipeline ==
    /\ config \in BatchPipelineGraphs
    /\ mainPc = "sleeping"
    /\ coordQ = main_mailbox(config)
    /\ actors = EmptyMap
    /\ inst = <<>>
    /\ sender_map = EmptyMap
    /\ reqs = <<>>
    /\ stopped = FALSE
    /\ verrors = <<>>

NextBatchPipeline ==
    \/ HandleInitialize
    \/ HandleProcessMessage
    \/ GeneratorTick
    \/ PoolerHandle
    \/ PrinterHandle
    \/ Timeout

SpecBatchPipeline == InitBatchPipeline /\ [][NextBatchPipeline]_vars

\* instance i takes the message at the head of its inbox in this step
Takes(i) ==
    /\ inst[i].inbox # <<>>
    /\ inst'[i].handled = Append(inst[i].handled, Head(inst[i].inbox))

\* C26: in BatchId mode a message with batch_id b and batch_total t is
\* appended to buffers[b]; if then |buffers[b]| >= t, exactly one message is
\* emitted, with id b, batch_id b, batch_total |buffers[b]| and the buffered
\* data in insertion order, and buffers[b] is deleted; otherwise nothing is
\* emitted.  Fed by a source with batch_size 2 and vectors of length 5, the
\* pooler emits one message of length 10 for every two source emissions.
C26_BatchIdEmitsWhenTotalReached ==
    /\ [][\A i \in DOMAIN inst :
            (inst[i].kind = "BatchPooler" /\ inst[i].pooling.kind = "BatchId"
             /\ Takes(i) /\ IsSome(Head(inst[i].inbox).batch_id)
             /\ IsSome(Head(inst[i].inbox).batch_total)) =>
               LET msg == Head(inst[i].inbox)
                   b   == msg.batch_id[1]
                   t   == msg.batch_total[1]
                   buf == Append(IF b \in DOMAIN inst[i].batch_buffers
                                 THEN inst[i].batch_buffers[b] ELSE <<>>, msg)
               IN IF Len(buf) >= t
                  THEN /\ EmitsOne
                       /\ LET out == coordQ'[Len(coordQ')] IN
                             /\ out.id = b
                             /\ out.batch_id = Some(b)
                             /\ out.batch_total = Some(Len(buf))
                             /\ out.data = DataOf(buf)
                       /\ b \notin DOMAIN inst'[i].batch_buffers
                  ELSE /\ coordQ' = coordQ
                       /\ b \in DOMAIN inst'[i].batch_buffers
                       /\ inst'[i].batch_buffers[b] = buf]_vars
    /\ [](\A i \in DOMAIN inst :
            inst[i].kind = "BatchPooler" =>
               /\ \A k \in DOMAIN inst[i].emitted :
                     Len(inst[i].emitted[k].data) = 2 * FeatureVectorSize
               /\ \A b \in {inst[i].handled[k].batch_id[1] : k \in DOMAIN inst[i].handled} :
                     LET out == WithId(inst[i].emitted, b)
                         got == OfBatch(inst[i].handled, b)
                     IN /\ Len(out) = Len(got) \div 2
                        /\ \A k \in DOMAIN out :
                              out[k].data = got[2 * k - 1].data \o got[2 * k].data)

\* the pooler has handled four source messages and emitted two of length 10
C26_Witness ==
    \E i \in DOMAIN inst :
        /\ inst[i].kind = "BatchPooler"
        /\ inst[i].pooling.kind = "BatchId"
        /\ Len(inst[i].handled) = 4
        /\ Len(inst[i].emitted) = 2
        /\ Len(inst[i].emitted[2].data) = 10
        /\ inst[i].batch_buffers = EmptyMap

----------------------------------------------------------------------------
(* Untagged messages at a BatchId pooler. *)

Untagged(msg) == ~IsSome(msg.batch_id) \/ ~IsSome(msg.batch_total)

\* C27: in BatchId mode a message lacking batch_id or batch_total is dropped:
\* nothing is emitted and no buffer is created or changed; and the pooler goes
\* on as if it had not arrived: for every batch_id b the emissions for b
\* followed by the buffer of b hold the data of the tagged messages received
\* for b, in order.
C27_UntaggedDroppedInBatchIdMode ==
    /\ [][(IsBatchIdPooler /\ PoolerTakes /\ Untagged(Head(inst[1].inbox))) =>
            /\ coordQ' = coordQ
            /\ inst'[1].batch_buffers = inst[1].batch_buffers
            /\ inst'[1].emitted = inst[1].emitted]_vars
    /\ [](IsBatchIdPooler =>
            /\ \A b \in BatchIds :
                  DataOf(WithId(inst[1].emitted, b))
                     \o DataOf(IF b \in DOMAIN inst[1].batch_buffers
                               THEN inst[1].batch_buffers[b] ELSE <<>>)
                     = DataOf(OfBatch(inst[1].handled, b))
            /\ DOMAIN inst[1].batch_buffers \subseteq BatchIds
            /\ \A k \in DOMAIN inst[1].emitted : inst[1].emitted[k].id \in BatchIds)

\* a batch of two completed around an untagged message
C27_Witness ==
    /\ IsBatchIdPooler
    /\ Len(inst[1].handled) = 3
    /\ inst[1].handled[1].batch_id = Some(1)
    /\ inst[1].handled[1].batch_total = Some(2)
    /\ Untagged(inst[1].handled[2])
    /\ inst[1].handled[3].batch_id = Some(1)
    /\ inst[1].handled[3].batch_total = Some(2)
    /\ Len(inst[1].emitted) = 1
    /\ inst[1].emitted[1].data = inst[1].handled[1].data \o inst[1].handled[3].data
    /\ inst[1].batch_buffers = EmptyMap

----------------------------------------------------------------------------
(* A source on its own: a DataGenerator on its interval, or a CsvReader    *)
(* reading its file (assumed to open) when it starts.                      *)

MaxSourceTicks == 5

MaxRows == 4

MaxBatchSize == 3

\* what a line of the file parses to: no number at all, or two numbers
CsvRows == {<<>>, <<2, 4>>}

RECURSIVE FilesOfLength(_)
FilesOfLength(n) ==
    IF n = 0 THEN {<<>>}
    ELSE {Append(f, row) : f \in FilesOfLength(n - 1), row \in CsvRows}

CsvFiles == UNION {FilesOfLength(n) : n \in 0..MaxRows}

(* CsvReader::read_and_send_data, the loop over the lines: a line without  *)
(* numbers is skipped, any other is sent with the next id and batch fields *)
RECURSIVE read_lines(_, _, _)
read_lines(self, lines, out) ==
    IF lines = <<>> THEN Result(self, out)
    ELSE IF Head(lines) = <<>>
         THEN read_lines(self, Tail(lines), out)
         ELSE LET b   == batch_info(self)
                  msg == ProcessMessage(self.next_id, self.output_name, Head(lines),
                                        b.batch_id, b.batch_total, <<self.name>>)
              IN read_lines([self EXCEPT
                                !.next_id = @ + 1,
                                !.current_count = @ + 1,
                                !.current_batch_id = b.current_batch_id,
                                !.current_batch_count = b.current_batch_count],
                            Tail(lines), Append(out, msg))

(* Actor::started for CsvReader: read the whole file, send every row to    *)
(* the coordinator, then ctx.stop().                                       *)
CsvReaderStarted ==
    \E i \in DOMAIN inst :
        /\ ~stopped
        /\ inst[i].kind = "CsvReader"
        /\ inst[i].running
        /\ \E lines \in CsvFiles :
              LET r == read_lines(inst[i], lines, <<>>) IN
              /\ inst' = [inst EXCEPT ![i] =
                            [r.self EXCEPT !.running = FALSE,
                                           !.emitted = @ \o r.out]]
              /\ coordQ' = coordQ \o r.out
        /\ UNCHANGED <<config, mainPc, actors, sender_map, reqs, stopped, verrors>>

SourceTick == generate_data(MaxSourceTicks)

SourceDecl(kind, batch_mode, batch_size) ==
    StepConfig("src", kind, <<>>, <<"raw">>,
               [NoParams EXCEPT !.batch_mode = batch_mode, !.batch_size = batch_size])

InitSource ==
    /\ \E kind \in {"DataGenerator", "CsvReader"},
          batch_mode \in {None, Some(FALSE), Some(TRUE)},
          batch_size \in {None} \cup {Some(B) : B \in 1..MaxBatchSize} :
          /\ config = Config(<<SourceDecl(kind, batch_mode, batch_size)>>, FALSE)
          /\ inst = <<create_step_actor(SourceDecl(kind, batch_mode, batch_size),
                                        FALSE).actor>>
    /\ actors = MapPut(EmptyMap, "src", 1)
    /\ mainPc = "sleeping"
    /\ coordQ = <<>>
    /\ sender_map = EmptyMap
    /\ reqs = <<>>
    /\ stopped = FALSE
    /\ verrors = <<>>

NextSource == SourceTick \/ CsvReaderStarted

SpecSource == InitSource /\ [][NextSource]_vars

\* C28: a source with batch emission enabled and batch_size B >= 1 tags its
\* n-th emission with batch_id ceil(n / B) and batch_total B.
C28_BatchIdIsCeilOfCount ==
    \A i \in DOMAIN inst :
        (/\ inst[i].kind \in {"DataGenerator", "CsvReader"}
         /\ inst[i].send_batch_info
         /\ IsSome(inst[i].batch_size)
         /\ inst[i].batch_size[1] >= 1) =>
            LET B == inst[i].batch_size[1] IN
            \A n \in DOMAIN inst[i].emitted :
                /\ inst[i].emitted[n].batch_id = Some((n + B - 1) \div B)
                /\ inst[i].emitted[n].batch_total = Some(B)

\* batches of two: the third and fourth emissions carry batch_id 2
C28_Witness ==
    /\ inst[1].send_batch_info
    /\ inst[1].batch_size = Some(2)
    /\ Len(inst[1].emitted) = 4
    /\ inst[1].emitted[2].batch_id = Some(1)
    /\ inst[1].emitted[3].batch_id = Some(2)
    /\ inst[1].emitted[4].batch_id = Some(2)

----------------------------------------------------------------------------
(* The ingress, request by request. *)

\* this step is the ingress taking a new request
RequestTaken == Len(reqs') = Len(reqs) + 1

\* the ingress registered the new request under its id and sent the
\* coordinator one message with that id and the given batch_id
IngressEmits(batch_id) ==
    LET r      == Len(reqs')
        req_id == reqs'[r].id
    IN /\ req_id \in DOMAIN sender_map'
       /\ sender_map'[req_id] = r
       /\ reqs'[r].chan.state = "open"
       /\ EmitsOne
       /\ LET msg == coordQ'[Len(coordQ')] IN
             /\ msg.node_id = "http_input"
             /\ msg.id = req_id
             /\ msg.batch_id = Some(batch_id)
             /\ msg.batch_total = Some(1)

\* C29 as stated: for each inbound request the ingress inserts a reply channel
\* into the registry under req_id and emits exactly one message, with node_id
\* "http_input", id req_id, batch_id 1 and batch_total 1.
C29_IngressEmitsBatchIdOne ==
    [][RequestTaken => IngressEmits(1)]_vars

\* C29 amended: for each inbound request the ingress inserts a reply channel
\* into the registry under req_id and emits exactly one message, with node_id
\* "http_input", id req_id, batch_id req_id and batch_total 1.
C29_IngressEmitsBatchIdReqId ==
    [][RequestTaken => IngressEmits(reqs'[Len(reqs')].id)]_vars

\* a request with id 2 is registered and its message, batch_id 2, is in the
\* coordinator's mailbox
C29_Witness ==
    /\ Len(reqs) = 1
    /\ reqs[1].id = 2
    /\ reqs[1].state = "awaiting"
    /\ 2 \in DOMAIN sender_map
    /\ coordQ # <<>>
    /\ coordQ[Len(coordQ)].node_id = "http_input"
    /\ coordQ[Len(coordQ)].id = 2
    /\ coordQ[Len(coordQ)].batch_id = Some(2)
    /\ coordQ[Len(coordQ)].batch_total = Some(1)

\* the requests the ingress has answered after registering them
Answered == {r \in DOMAIN reqs : reqs[r].state = "responded" /\ reqs[r].status # 400}

\* C30: the registry holds an entry for a req_id only while that request is in
\* flight: once the ingress has responded for req_id the registry holds no
\* entry for it, and a message with that id that the sink takes afterwards
\* changes neither the registry nor any reply channel.
C30_NoEntryOnceResponded ==
    /\ [](\A r \in Answered : reqs[r].id \notin DOMAIN sender_map)
    /\ [][\A i \in DOMAIN inst :
            (SinkTakes(i) /\ \E r \in Answered : reqs[r].id = Head(inst[i].inbox).id)
               => (sender_map' = sender_map /\ reqs' = reqs)]_vars

----------------------------------------------------------------------------
(* main's request/response-mode rewrite on its own: a declared graph is    *)
(* loaded, rewritten, and handed to the coordinator for validation.  The   *)
(* graphs are all the lists of at most MaxRewriteSteps steps from          *)
(* RewriteSteps.                                                           *)

MaxRewriteSteps == 3

RewriteSteps ==
    {StepConfig("gen", "DataGenerator", <<>>, <<"raw">>, NoParams),
     StepConfig("csv", "CsvReader", <<>>, <<"rows">>, NoParams),
     StepConfig("fp", "FeatureProcessor", <<"raw">>, <<"encoded_data">>, NoParams),
     StepConfig("m", "MLModel", <<"rows">>, <<"lr_output">>, NoParams),
     StepConfig("pool", "BatchPooler", <<"encoded_data">>, <<"pooled">>,
                [NoParams EXCEPT !.window_size = Some(2)]),
     StepConfig("pool2", "BatchPooler", <<"lr_output">>, <<"pooled">>,
                [NoParams EXCEPT !.window_size = Some(3)]),
     StepConfig("printer", "Printer", <<"pooled">>, <<>>, NoParams),
     StepConfig("both", "Printer", <<"raw", "rows">>, <<>>, NoParams)}

RewriteGraphs ==
    UNION {[1..n -> RewriteSteps] : n \in 1..MaxRewriteSteps}

InitRewrite ==
    /\ \E steps \in RewriteGraphs : config = Config(steps, FALSE)
    /\ mainPc = "loading"
    /\ coordQ = <<>>
    /\ actors = EmptyMap
    /\ inst = <<>>
    /\ sender_map = EmptyMap
    /\ reqs = <<>>
    /\ stopped = FALSE
    /\ verrors = <<>>

(* main with --http, from the loaded JSON to the first Initialize: the     *)
(* rewrite, the deserialization (which fails when the rewrite left a null  *)
(* input) and the start of the coordinator.                                *)
MainRewrite ==
    /\ mainPc = "loading"
    /\ LET rewritten == http_rewrite(config.steps) IN
       IF rewritten.ok
       THEN /\ config' = Config(rewritten.steps, TRUE)
            /\ mainPc' = "serving"
            /\ coordQ' = main_mailbox(Config(rewritten.steps, TRUE))
            /\ UNCHANGED stopped
       ELSE /\ mainPc' = "done"
            /\ stopped' = TRUE
            /\ UNCHANGED <<config, coordQ>>
    /\ UNCHANGED <<actors, inst, sender_map, reqs, verrors>>

NextRewrite == MainRewrite \/ HandleInitialize

SpecRewrite == InitRewrite /\ [][NextRewrite]_vars

\* this step is the rewrite of the loaded graph
Rewritten == mainPc = "loading" /\ mainPc' = "serving"

\* the outputs of the source steps of a graph
SourceOutputs(steps) ==
    UNION {Range(steps[k].outputs) : k \in {j \in DOMAIN steps : IsSourceType(steps[j])}}

\* the last step without outputs, if any
SinkOf(steps) ==
    LET finals == {k \in DOMAIN steps : steps[k].outputs = <<>>} IN
    IF finals = {} THEN None
    ELSE Some(CHOOSE k \in finals : \A j \in finals : j <= k)

\* C31: the rewrite leaves no DataGenerator or CsvReader step, keeps the other
\* steps in order, makes every input that named an output of any removed
\* source read "http_input", replaces the sink by the request/response sink,
\* gives window_size 1 to every pooler whose output feeds that sink, and
\* leaves everything else as it was.
C31_RewriteAsClaimed ==
    [][Rewritten =>
         LET old  == SelectSeq(config.steps, IsKeptType)
             new  == config'.steps
             gone == SourceOutputs(config.steps)
             sink == SinkOf(old)
             fed  == IF IsSome(sink) THEN Range(new[sink[1]].inputs) ELSE {}
         IN /\ Len(new) = Len(old)
            /\ \A k \in DOMAIN new :
                  /\ ~IsSourceType(new[k])
                  /\ \A j \in DOMAIN new[k].inputs :
                        old[k].inputs[j] \in gone => new[k].inputs[j] = "http_input"
                  /\ sink = Some(k) => new[k].node_type = "HttpOutput"
                  /\ (new[k].node_type = "BatchPooler"
                      /\ Range(new[k].outputs) \cap fed # {})
                        => new[k].params.window_size = Some(1)
                  /\ (sink # Some(k) /\ Range(old[k].inputs) \cap gone = {}
                      /\ Range(old[k].outputs) \cap fed = {})
                        => new[k] = old[k]]_vars

----------------------------------------------------------------------------
(* An MLModel on its own, local or with a remote endpoint, fed any         *)
(* sequence of at most MaxModelDeliveries messages from ModelMsgs.  A      *)
(* remote call is a future spawned on the actor's context: the handler     *)
(* returns at once and the calls in flight complete in any order.          *)

MaxModelDeliveries == 3

ModelMsgs ==
    {ProcessMessage(id, "raw", data, None, None, <<>>) :
        id \in {1, 2}, data \in {<<>>, <<2, 3>>}}
    \cup {ProcessMessage(3, "raw", <<4>>, Some(1), Some(2), <<>>)}

ModelDecl(output, remote_endpoint) ==
    StepConfig("m", "MLModel", <<"raw">>, <<output>>,
               [NoParams EXCEPT !.remote_endpoint = remote_endpoint])

InitModel ==
    /\ \E output \in {"lr_output", "am_output"}, remote \in {None, Some("endpoint")} :
          /\ config = Config(<<ModelDecl(output, remote)>>, FALSE)
          /\ inst = <<create_step_actor(ModelDecl(output, remote), FALSE).actor>>
    /\ actors = MapPut(EmptyMap, "m", 1)
    /\ mainPc = "sleeping"
    /\ coordQ = <<>>
    /\ sender_map = EmptyMap
    /\ reqs = <<>>
    /\ stopped = FALSE
    /\ verrors = <<>>

DeliverToModel ==
    /\ ~stopped
    /\ Delivered(1) < MaxModelDeliveries
    /\ \E msg \in ModelMsgs : inst' = send_process_message(inst, 1, msg)
    /\ UNCHANGED <<config, mainPc, coordQ, actors, sender_map, reqs, stopped, verrors>>

\* what the remote endpoint answers: a transport error, a non-success status,
\* or a success whose processed_features are the given numbers (none when the
\* body is not the expected JSON)
RemoteAnswers ==
    {[kind |-> "transport_error", result |-> <<>>],
     [kind |-> "status_error", result |-> <<>>],
     [kind |-> "success", result |-> <<>>],
     [kind |-> "success", result |-> <<5>>]}

RemoveAt(seq, k) == SubSeq(seq, 1, k - 1) \o SubSeq(seq, k + 1, Len(seq))

(* The future spawned by the MLModel handler for a remote call: on a       *)
(* success the result is sent to the coordinator under the message's id    *)
(* and batch fields, otherwise nothing is sent.                            *)
RemoteCallCompletes ==
    \E i \in DOMAIN inst :
        /\ ~stopped
        /\ inst[i].kind = "MLModel"
        /\ \E k \in DOMAIN inst[i].spawned, answer \in RemoteAnswers :
              LET msg == inst[i].spawned[k]
                  out == IF answer.kind = "success"
                         THEN <<ProcessMessage(msg.id, inst[i].output_name, answer.result,
                                               msg.batch_id, msg.batch_total,
                                               AddTrace(msg, inst[i].output_name))>>
                         ELSE <<>>
              IN /\ inst' = [inst EXCEPT ![i].spawned = RemoveAt(@, k),
                                         ![i].answers =
                                            Append(@, [msg |-> msg, kind |-> answer.kind]),
                                         ![i].emitted = @ \o out]
                 /\ coordQ' = coordQ \o out
        /\ UNCHANGED <<config, mainPc, actors, sender_map, reqs, stopped, verrors>>

NextModel == DeliverToModel \/ MLModelHandle \/ RemoteCallCompletes

SpecModel == InitModel /\ [][NextModel]_vars

\* a is b with some elements left out
RECURSIVE IsSubSeq(_, _)
IsSubSeq(a, b) ==
    IF a = <<>> THEN TRUE
    ELSE IF b = <<>> THEN FALSE
    ELSE IF Head(a) = Head(b)
         THEN IsSubSeq(Tail(a), Tail(b)) \/ IsSubSeq(a, Tail(b))
         ELSE IsSubSeq(a, Tail(b))

IdsOf(log) == [k \in DOMAIN log |-> log[k].id]

\* C32: a step's emissions occur in the order in which their triggering
\* inputs arrived: the ids of the emissions of an MLModel, in order, are ids
\* of the messages it handled, in the same order.
C32_EmissionsInArrivalOrder ==
    \A i \in DOMAIN inst :
        inst[i].kind = "MLModel" =>
            IsSubSeq(IdsOf(inst[i].emitted), IdsOf(inst[i].handled))

HasData(msg) == msg.data # <<>>

Succeeded(answer) == answer.kind = "success"

\* the emission carries the id and batch fields of the message
Answers(out, msg) ==
    /\ out.id = msg.id
    /\ out.batch_id = msg.batch_id
    /\ out.batch_total = msg.batch_total

----------------------------------------------------------------------------
(* Interleavings of the deliveries from different upstreams. *)

\* what a join emits, from the state `self`, when handed the messages of
\* `log` one after the other
RECURSIVE JoinRun(_, _)
JoinRun(self, log) ==
    IF log = <<>> THEN <<>>
    ELSE LET r == join_handle(self, Head(log)) IN
         r.out \o JoinRun(r.self, Tail(log))

\* another interleaving of the same deliveries: all of upstream a's, in
\* their order, before all of upstream b's, in their order
UpstreamByUpstream(log) == FromOutput(log, "a") \o FromOutput(log, "b")

KeysAndData(out) == {[id |-> out[k].id, data |-> out[k].data] : k \in DOMAIN out}

\* C33: for the messages a join has handled, another interleaving of the
\* deliveries of its two upstreams produces the same emissions (the same
\* keys with the same data).
C33_JoinEmissionsIgnoreInterleaving ==
    inst[1].kind = "StepJoinPoint" =>
        KeysAndData(inst[1].emitted)
           = KeysAndData(JoinRun(create_step_actor(config.steps[1], FALSE).actor,
                                 UpstreamByUpstream(inst[1].handled)))

----------------------------------------------------------------------------
(* Routing and processing. *)

IsPrefix(a, b) == Len(a) <= Len(b) /\ SubSeq(b, 1, Len(a)) = a

\* this step is the coordinator routing the ProcessMessage at the head of
\* its mailbox
Routes ==
    /\ coordQ # <<>>
    /\ Head(coordQ).type = "ProcessMessage"
    /\ coordQ' = Tail(coordQ)

\* a step's handler runs
StepWork ==
    \/ FeatureProcessorHandle
    \/ MLModelHandle
    \/ JoinHandle
    \/ PrinterHandle

\* C34: the coordinator never runs a handler inline: routing only appends to
\* inboxes, leaving every step's state, handled messages and emissions as
\* they are; a step's work only appends to the coordinator's mailbox and
\* touches no other step; and neither waits on the other: while the system
\* runs, a ProcessMessage at the head of the coordinator's mailbox can be
\* routed and a message in a step's inbox can be taken by that step, whatever
\* the other is doing.
C34_RoutingAndProcessingDecoupled ==
    /\ [][/\ Routes =>
                \A i \in DOMAIN inst :
                    /\ IsPrefix(inst[i].inbox, inst'[i].inbox)
                    /\ inst'[i] = [inst[i] EXCEPT !.inbox = inst'[i].inbox]
          /\ \A i \in DOMAIN inst :
                Takes(i) =>
                    /\ IsPrefix(coordQ, coordQ')
                    /\ \A j \in DOMAIN inst : j # i => inst'[j] = inst[j]]_vars
    /\ [](~stopped =>
            /\ (coordQ # <<>> /\ Head(coordQ).type = "ProcessMessage")
                  => ENABLED HandleProcessMessage
            /\ \A i \in DOMAIN inst :
                  inst[i].inbox # <<>> => ENABLED (StepWork /\ Takes(i)))

\* a step's emission sits in the coordinator's mailbox behind another message
\* while steps have messages in their inboxes
C34_Witness ==
    /\ ~stopped
    /\ Len(coordQ) >= 2
    /\ \A k \in 1..2 : coordQ[k].type = "ProcessMessage"
    /\ coordQ[1].node_id = "raw"
    /\ coordQ[2].node_id = "encoded_data"
    /\ \E i \in DOMAIN inst : inst[i].kind = "MLModel" /\ Len(inst[i].inbox) >= 1

----------------------------------------------------------------------------
(* The streaming timeout. *)

InFlight ==
    \/ \E k \in DOMAIN coordQ : coordQ[k].type = "ProcessMessage"
    \/ \E i \in DOMAIN inst : inst[i].inbox # <<>>

\* C36: when the process exits on the streaming timeout, every message
\* emitted before the timeout fired has been processed: none is left in the
\* coordinator's mailbox or in a step's inbox.
C36_NothingInFlightAtExit ==
    (mainPc = "done" /\ stopped) => ~InFlight

----------------------------------------------------------------------------
(* Requests through graphs with poolers, joins and transforms. *)

\* source -> Window pooler of size 2 -> model -> printer: after the rewrite
\* the pooler is not the step feeding the sink and keeps its window
PooledBeforeModel ==
    <<StepConfig("src", "DataGenerator", <<>>, <<"raw">>, NoParams),
      StepConfig("pool", "BatchPooler", <<"raw">>, <<"pooled">>,
                 [NoParams EXCEPT !.window_size = Some(2)]),
      StepConfig("m", "MLModel", <<"pooled">>, <<"lr_output">>, NoParams),
      StepConfig("printer", "Printer", <<"lr_output">>, <<>>, NoParams)>>

\* source -> transform -> {transform, model} -> join -> printer
FanOutAndJoin(mode) ==
    <<StepConfig("src", "DataGenerator", <<>>, <<"raw">>, NoParams),
      StepConfig("p", "FeatureProcessor", <<"raw">>, <<"passed">>, NoParams),
      StepConfig("a", "FeatureProcessor", <<"passed">>, <<"encoded_data">>, NoParams),
      StepConfig("b", "MLModel", <<"passed">>, <<"lr_output">>, NoParams),
      StepConfig("join", "StepJoinPoint", <<"encoded_data", "lr_output">>,
                 <<"joined">>, [NoParams EXCEPT !.mode = mode]),
      StepConfig("printer", "Printer", <<"joined">>, <<>>, NoParams)>>

\* source -> transform -> Window pooler of size 2 -> printer: the rewrite
\* sets the window of the pooler feeding the sink to 1
PooledBeforeSink ==
    <<StepConfig("src", "DataGenerator", <<>>, <<"raw">>, NoParams),
      StepConfig("a", "FeatureProcessor", <<"raw">>, <<"encoded_data">>, NoParams),
      StepConfig("pool", "BatchPooler", <<"encoded_data">>, <<"pooled">>,
                 [NoParams EXCEPT !.window_size = Some(2)]),
      StepConfig("printer", "Printer", <<"pooled">>, <<>>, NoParams)>>

\* source -> BatchId pooler -> transform -> printer
BatchIdBeforeTransform ==
    <<StepConfig("src", "DataGenerator", <<>>, <<"raw">>, NoParams),
      StepConfig("pool", "BatchPooler", <<"raw">>, <<"pooled">>, NoParams),
      StepConfig("a", "FeatureProcessor", <<"pooled">>, <<"encoded_data">>, NoParams),
      StepConfig("printer", "Printer", <<"encoded_data">>, <<>>, NoParams)>>

StatelessOrKeyedGraphs ==
    {FanOutAndJoin(None), FanOutAndJoin(Some("OR")), PooledBeforeSink,
     BatchIdBeforeTransform}

LoadedServedGraphs == {PooledBeforeModel} \cup StatelessOrKeyedGraphs

InitServed ==
    /\ \E loaded \in LoadedServedGraphs :
          /\ http_rewrite(loaded).ok
          /\ config = Config(http_rewrite(loaded).steps, TRUE)
    /\ mainPc = "serving"
    /\ coordQ = main_mailbox(config)
    /\ actors = EmptyMap
    /\ inst = <<>>
    /\ sender_map = EmptyMap
    /\ reqs = <<>>
    /\ stopped = FALSE
    /\ verrors = <<>>

NextServed ==
    \/ HandleInitialize
    \/ HandleProcessMessage
    \/ HttpRequestBegin
    \/ FeatureProcessorHandle
    \/ MLModelHandle
    \/ JoinHandle
    \/ PoolerHandle
    \/ HttpOutputHandle
    \/ HttpRequestComplete

SpecServed == InitServed /\ [][NextServed]_vars

DistinctRequestIds ==
    \A r1, r2 \in DOMAIN reqs : reqs[r1].id = reqs[r2].id => r1 = r2

\* C37: with the pooler of window 2 in front of the model, a request that is
\* answered 200 is answered with the model's prediction for its own features,
\* whatever the other requests are (requests drawing distinct ids).
C37_ReplyFromOwnFeaturesOnly ==
    (config.steps = http_rewrite(PooledBeforeModel).steps /\ DistinctRequestIds) =>
        \A r \in DOMAIN reqs :
            (reqs[r].state = "responded" /\ reqs[r].status = 200) =>
                reqs[r].body_json
                   = handle_local_prediction("lr_output", parse_features(reqs[r].payload))

InFlightMessages ==
    {coordQ[k] : k \in {j \in DOMAIN coordQ : coordQ[j].type = "ProcessMessage"}}
       \cup UNION {Range(inst[i].inbox) : i \in DOMAIN inst}

ServesStatelessOrKeyed ==
    \E loaded \in StatelessOrKeyedGraphs : config.steps = http_rewrite(loaded).steps

\* C38: through transforms, joins, BatchId poolers and Window poolers of
\* size 1, every message in flight carries the id of a request, and the
\* message the sink takes finds the registry entry of the request with its
\* id.
C38_SinkFindsEntryOfRequest ==
    /\ [](ServesStatelessOrKeyed =>
             \A msg \in InFlightMessages : \E r \in DOMAIN reqs : reqs[r].id = msg.id)
    /\ [][ServesStatelessOrKeyed =>
             \A i \in DOMAIN inst :
                (inst[i].kind = "HttpOutput" /\ Takes(i)) =>
                    LET msg == Head(inst[i].inbox) IN
                    /\ msg.id \in DOMAIN sender_map
                    /\ reqs[sender_map[msg.id]].id = msg.id]_vars

----------------------------------------------------------------------------
(* The cycle check on graphs without a cycle. *)

\* C39: the cycle check has no false positives: whenever has_cycles answers
\* true for the configuration handed to Initialize, and the cycle error has
\* been reported, the declared graph does contain a cycle, also when a step
\* is named like a stream.
C39_CycleErrorOnlyForCyclicGraph ==
    /\ has_cycles(config) => GraphHasCycle(config.steps)
    /\ (Validated /\ cycle_errors(config) # <<>>) =>
          (GraphHasCycle(config.steps) /\ verrors # <<>>)

----------------------------------------------------------------------------
(* A source with a limit feeding a Window pooler. *)

FlushWindow == 3

\* source (limit) -> Window pooler -> printer
WindowPipelineGraph(limit) ==
    Config(<<StepConfig("src", "DataGenerator", <<>>, <<"raw">>,
                        [NoParams EXCEPT !.limit = Some(limit),
                                         !.batch_mode = Some(FALSE)]),
             StepConfig("pool", "BatchPooler", <<"raw">>, <<"pooled">>,
                        [NoParams EXCEPT !.window_size = Some(FlushWindow)]),
             StepConfig("printer", "Printer", <<"pooled">>, <<>>, NoParams)>>, FALSE)

WindowPipelineGraphs == {WindowPipelineGraph(limit) : limit \in 1..MaxTicks}

InitWindowPipeline ==
    /\ config \in WindowPipelineGraphs
    /\ mainPc = "sleeping"
    /\ coordQ = main_mailbox(config)
    /\ actors = EmptyMap
    /\ inst = <<>>
    /\ sender_map = EmptyMap
    /\ reqs = <<>>
    /\ stopped = FALSE
    /\ verrors = <<>>

NextWindowPipeline ==
    \/ HandleInitialize
    \/ HandleProcessMessage
    \/ GeneratorTick
    \/ PoolerHandle
    \/ PrinterHandle
    \/ Timeout

SpecWindowPipeline == InitWindowPipeline /\ [][NextWindowPipeline]_vars

\* every source has reached its limit and stopped, and no message is on its
\* way any more
SourcesFinishedAndQuiet ==
    /\ ~stopped
    /\ coordQ = <<>>
    /\ inst # <<>>
    /\ \A i \in DOMAIN inst :
          /\ inst[i].inbox = <<>>
          /\ inst[i].kind = "DataGenerator" => ~inst[i].running

\* C40: once the source has finished and everything it emitted has been
\* handled, no pooler still holds a message: every message a pooler accepted
\* has been included in an emission.
C40_NothingLeftInPoolers ==
    SourcesFinishedAndQuiet =>
        \A i \in DOMAIN inst :
            inst[i].kind = "BatchPooler" =>
                /\ inst[i].window_buffer = <<>>
                /\ inst[i].batch_buffers = EmptyMap

=============================================================================
